---- MODULE Spec2Model ----
(***************************************************************************)
(* Vertra Cloud VS Code extension: the tree provider (resource mirror),    *)
(* its commands and its timers, as a state machine.                        *)
(*                                                                         *)
(* The repository holds several revisions of the same program:             *)
(*   final      src/unnamed/part_001          two views, no timers         *)
(*   two-view   src/src/extension.ts 1-260    two views, no timers         *)
(*   grouped    src/src/extension.ts 262-572  one view, poll + debounce    *)
(*   action-row src/unnamed/part_000 133-413  one view, poll + debounce    *)
(* The variable rev says which revision a behaviour runs; definitions of   *)
(* one revision carry its suffix (_F, _T, _G, _A).                         *)
(*                                                                         *)
(* JavaScript runs one handler at a time and yields only at an await, so   *)
(* an action is the code between two awaits.  A read or write of the       *)
(* secret storage is taken together with the code that follows it.         *)
(***************************************************************************)
EXTENDS Integers, Sequences, FiniteSets, TLC

VARIABLES
  rev,                  \* the revision that runs
  track,                \* which of the history variables this specification follows
  secret,               \* secretStorage["vertraCloudApiKey"], NoKey when absent
  apps,                 \* provider -> this.apps
  dbs,                  \* provider -> this.dbs
  auth,                 \* provider -> bearer of its axios instance (NoKey: no header, NoClient: no instance)
  tasks,                \* the awaits in flight: HTTP requests, the input box, the secret delete
  refreshTimeout,       \* the debounce timer of refresh()
  statusUpdateInterval, \* the poll timer
  projects,             \* this.projects of the action-row revision
  openedProjectId,      \* this.openedProjectId of the action-row revision
  owner,                \* history: provider -> the bearer its collections were fetched with
  optimistic,           \* history: ids of the apps whose cached status a command wrote last
  burstCalls,           \* history: provider -> refresh() calls in the current 100 ms window
  burstEvents,          \* history: provider -> tree-change events refresh() emitted in that window
  ev                    \* history: what the last step did

vars == <<rev, track, secret, apps, dbs, auth, tasks, refreshTimeout, statusUpdateInterval,
          projects, openedProjectId, owner, optimistic, burstCalls, burstEvents, ev>>

\* The state only the revisions with one provider have.
singleVars == <<refreshTimeout, statusUpdateInterval, projects, openedProjectId>>

-----------------------------------------------------------------------------
(* Bounds and the small sets the inputs are drawn from *)

MaxInFlight == 2
MaxBurst == 2

NoKey == "none"
NoClient == "noclient"
Keys == {"k1", "k2"}
AppIds == {"a1", "a2"}
DbIds == {"d1"}
Views == {"app", "db"}

Min(a, b) == IF a < b THEN a ELSE b

RamOf(i) == IF i = "a1" THEN 256 ELSE 512

Res(i, s) == [id |-> i, status |-> s, ram |-> RamOf(i)]

\* The listings GET /users/@me can answer with: ids are unique in each collection.
Listing0 == [applications |-> <<>>, databases |-> <<>>]

Listing1 ==
  [applications |-> <<Res("a1", "up"), Res("a2", "down")>>, databases |-> <<Res("d1", "up")>>]

Listing2 ==
  [applications |-> <<Res("a1", "down"), Res("a2", "up")>>, databases |-> <<Res("d1", "down")>>]

Listing3 == [applications |-> <<Res("a1", "up")>>, databases |-> <<Res("d1", "down")>>]

Listings == {Listing0, Listing1}

\* The listings the action-row revision is run with.
Listings_A == {Listing0, Listing3}

AllListings == {Listing0, Listing1, Listing2, Listing3}

\* What the server answers to GET /users/@me: a transport or HTTP failure, an
\* envelope that is not "success", or a listing.  Without a bearer: 401.
UserResponsesOf(L) ==
  {[kind |-> "fail"], [kind |-> "envelope", status |-> "error"]}
  \cup {[kind |-> "envelope", status |-> "success", response |-> l] : l \in L}

UserResponses(key) == IF key \in Keys THEN UserResponsesOf(AllListings) ELSE {[kind |-> "fail"]}

\* Status snapshots GET /apps/{id}/status answers with.
Snapshot(r, ram, cpu, up, nt, nn, st, sto) ==
  [running |-> r, ram |-> ram, cpu |-> cpu, uptime |-> up,
   network |-> [total |-> nt, now |-> nn], status |-> st, storage |-> sto]

ServerSnapshots ==
  { Snapshot(TRUE, 64, 3, 125, <<10, 2>>, <<1, 1>>, "up", 5),
    Snapshot(FALSE, 0, 0, 0, <<10, 2>>, <<0, 0>>, "down", 5) }

StatusResponses ==
  {[kind |-> "fail", code |-> 500], [kind |-> "fail", code |-> 404]}
  \cup {[kind |-> "ok", response |-> s] : s \in ServerSnapshots}

\* What the server answers to a POST: accepted, or an error (always, without a bearer).
PostResponses(bearer) == IF bearer = NoKey THEN {"fail"} ELSE {"2xx", "fail"}

Bearer(a) == IF a \in Keys THEN "bearer" ELSE NoKey

-----------------------------------------------------------------------------
(* Records *)

Task(op, p, id, key, parent, waiter) ==
  [op |-> op, p |-> p, id |-> id, key |-> key, parent |-> parent, waiter |-> waiter]

\* Who awaits the setApiKey command: a root getChildren of a view (the view's name),
\* a getChildren of one of its nodes, or nobody ("-", the command palette).
Waiter(p, id) == IF id = "-" THEN p ELSE p \o ".element"

Req(path, p, bearer) == [path |-> path, p |-> p, bearer |-> bearer]

\* The record of a step: the requests it issued, the views whose tree-change
\* event it emitted, the message it showed, the getChildren call it answered, and
\* whether it armed the 100 ms timer of a debounced refresh(), and the order of
\* the effects of a command.
Ev(op, p, id) ==
  [op |-> op, p |-> p, id |-> id, ok |-> TRUE, req |-> {}, fired |-> {}, msg |-> {},
   retTo |-> "-", via |-> "-", ret |-> <<>>, snap |-> "-", code |-> 0, prompt |-> FALSE,
   was |-> "-", resp |-> <<>>, calls |-> <<>>, events |-> <<>>, scheduled |-> FALSE,
   order |-> <<>>]

Bump(f, S) ==
  IF "bursts" \in track THEN [p \in DOMAIN f |-> IF p \in S THEN Min(f[p] + 1, MaxBurst) ELSE f[p]] ELSE f

-----------------------------------------------------------------------------
(* Pure helpers of the code *)

\* Array.prototype.find on the id: the index of the first entry, 0 when none.
find(list, id) ==
  IF \E i \in 1..Len(list) : list[i].id = id
    THEN CHOOSE i \in 1..Len(list) : list[i].id = id /\ \A j \in 1..(i - 1) : list[j].id # id
    ELSE 0

Ids(list) == {list[i].id : i \in 1..Len(list)}

\* The status of the entry find returns, "-" when there is none.
StatusOf(list, id) == IF find(list, id) = 0 THEN "-" ELSE list[find(list, id)].status

setStatus(list, id, s) ==
  IF find(list, id) = 0 THEN list ELSE [list EXCEPT ![find(list, id)].status = s]

-----------------------------------------------------------------------------
(* Final revision: src/unnamed/part_001 *)

none2 == [p \in Views |-> 0]

\* Tasks of the setApiKey command: its input box and the reloads it awaits.
SetApiKeyBusy == \E t \in tasks : t.op = "setApiKey" \/ t.parent = "setApiKey"

\* getChildren root level, lines 66-98: one node per entry of the view's collection.
RootNodes_F(p, a, d) ==
  LET list == IF p = "app" THEN a ELSE d IN
  [i \in 1..Len(list) |->
     [id |-> list[i].id,
      icon |-> IF list[i].status = "up" THEN "charts.green" ELSE "charts.red"]]

\* The snapshot getChildren substitutes for a 404 of an app, lines 119-132.
SyntheticOffline_F == Snapshot(FALSE, 0, 0, 0, <<0, 0>>, <<0, 0>>, "down", 0)

NoSnapshot == Snapshot(FALSE, 0, 0, 0, <<0, 0>>, <<0, 0>>, "none", 0)

\* The four rows of an expanded app, lines 141-197; a database gets no row.
StatusRows_F(p, statusData, list, id) ==
  IF p = "app"
    THEN LET userApp == find(list, id)
             ramLimit == IF userApp # 0 /\ list[userApp].ram # 0
                           THEN list[userApp].ram ELSE statusData.ram
         IN << [description |-> "Status",
                label |-> IF statusData.running THEN "Ligado" ELSE "Desligado"],
               [description |-> "RAM", label |-> <<statusData.ram, ramLimit>>],
               [description |-> "CPU", label |-> statusData.cpu],
               [description |-> "Uptime", label |-> statusData.uptime \div 60] >>
    ELSE <<>>

\* A getChildren that answers from the cache without asking for a key.
Prompt_Cached(p, id) ==
  /\ ev' = [Ev("getChildren", p, id) EXCEPT !.retTo = Waiter(p, id), !.via = "direct"]
  /\ UNCHANGED <<rev, track, secret, apps, dbs, auth, tasks, owner, optimistic, burstCalls,
                 burstEvents, singleVars>>

\* getChildren without a stored key, lines 53-57: it runs the setApiKey command
\* (whose first await is the input box) and answers [] once the command has ended.
Prompt_F(p, id) ==
  /\ ~SetApiKeyBusy
  /\ Cardinality(tasks) < MaxInFlight
  /\ tasks' = tasks \cup {Task("setApiKey", "-", "-", NoKey, "-", Waiter(p, id))}
  /\ ev' = [Ev("getChildren", p, id) EXCEPT !.prompt = TRUE]
  /\ UNCHANGED <<rev, track, secret, apps, dbs, auth, owner, optimistic, burstCalls, burstEvents, singleVars>>

\* getChildren(undefined), lines 52-99, up to its first await or its return.
getChildrenRoot_F(p) ==
  /\ rev = "final"
  /\ IF secret = NoKey
       THEN Prompt_F(p, "-")
       ELSE /\ auth' = [auth EXCEPT ![p] = secret]
            /\ IF apps[p] = <<>> /\ dbs[p] = <<>>
                 THEN /\ Cardinality(tasks) < MaxInFlight
                      /\ Task("loadProjects", p, "-", secret, "getChildren", "-") \notin tasks
                      /\ tasks' = tasks \cup {Task("loadProjects", p, "-", secret, "getChildren", "-")}
                      /\ ev' = [Ev("getChildren", p, "-") EXCEPT
                                  !.req = {Req("/users/@me", p, secret)}]
                 ELSE /\ ev' = [Ev("getChildren", p, "-") EXCEPT
                                  !.retTo = p, !.via = "direct",
                                  !.ret = RootNodes_F(p, apps[p], dbs[p])]
                      /\ UNCHANGED tasks
            /\ UNCHANGED <<rev, track, secret, apps, dbs, owner, optimistic, burstCalls, burstEvents, singleVars>>

\* A reload that pushes the listing onto what the collection already holds.
replaceAll_Append(old, listed) == old \o listed

\* loadProjects, lines 213-216: the array is emptied, then the listing is pushed.
replaceAll_F(old, listed) == listed

\* A reload that replaces the applications and leaves the databases as they are.
loadProjectsDone_Torn(t, r) ==
  /\ rev = "final"
  /\ t \in tasks /\ t.op = "loadProjects"
  /\ r \in UserResponses(t.key)
  /\ LET ok == r.kind = "envelope" /\ r.status = "success"
     IN /\ apps' = IF ok THEN [apps EXCEPT ![t.p] = r.response.applications] ELSE apps
        /\ owner' = IF ok THEN [owner EXCEPT ![t.p] = t.key] ELSE owner
        /\ optimistic' = IF ok /\ t.p = "app" THEN {} ELSE optimistic
        /\ ev' = [Ev("loadProjects", t.p, "-") EXCEPT
                    !.ok = ok, !.resp = IF ok THEN r.response ELSE <<>>]
  /\ tasks' = tasks \ {t}
  /\ UNCHANGED <<rev, track, secret, dbs, auth, burstCalls, burstEvents, singleVars>>

\* loadProjects, lines 207-221, from the answer of GET /users/@me on, and what the
\* caller that awaits it does next: getChildren (lines 66-98) returns the nodes;
\* setApiKey (lines 271-274), once both reloads have ended, refreshes both views.
loadProjectsDone_F(t, r) ==
  /\ rev = "final"
  /\ t \in tasks /\ t.op = "loadProjects"
  /\ r \in UserResponses(t.key)
  /\ LET ok == r.kind = "envelope" /\ r.status = "success"
         a2 == IF ok THEN [apps EXCEPT ![t.p] = replaceAll_F(@, r.response.applications)]
                     ELSE apps
         d2 == IF ok THEN [dbs EXCEPT ![t.p] = replaceAll_F(@, r.response.databases)] ELSE dbs
         err == IF r.kind = "fail" THEN {"error"} ELSE {}
         code == IF r.kind = "envelope" THEN 200 ELSE 0
         last == t.parent = "setApiKey" /\ ~\E u \in tasks \ {t} : u.parent = "setApiKey"
         nodes == RootNodes_F(t.p, a2[t.p], d2[t.p])
     IN /\ apps' = a2
        /\ dbs' = d2
        /\ owner' = IF ok THEN [owner EXCEPT ![t.p] = t.key] ELSE owner
        /\ optimistic' = IF ok /\ t.p = "app" THEN {} ELSE optimistic
        /\ tasks' = tasks \ {t}
        /\ IF t.parent = "getChildren"
             THEN /\ ev' = [Ev("loadProjects", t.p, "-") EXCEPT
                              !.ok = ok, !.msg = err, !.resp = IF ok THEN r.response ELSE <<>>,
                              !.code = code,
                              !.retTo = t.p, !.via = "direct", !.ret = nodes]
                  /\ UNCHANGED <<burstCalls, burstEvents>>
             ELSE IF last
               THEN /\ ev' = [Ev("loadProjects", t.p, "-") EXCEPT
                                !.ok = ok, !.msg = err \cup {"info"}, !.fired = Views,
                                !.code = code, !.resp = IF ok THEN r.response ELSE <<>>,
                                !.retTo = t.waiter, !.via = "prompt"]
                    /\ burstCalls' = Bump(burstCalls, Views)
                    /\ burstEvents' = Bump(burstEvents, Views)
               ELSE /\ ev' = [Ev("loadProjects", t.p, "-") EXCEPT
                                !.ok = ok, !.msg = err, !.code = code,
                                !.resp = IF ok THEN r.response ELSE <<>>]
                    /\ UNCHANGED <<burstCalls, burstEvents>>
  /\ UNCHANGED <<rev, track, secret, auth, singleVars>>

\* History: whether the status request of a node is issued while the cached status
\* of its app is one a command wrote.
Marked(p, id) == IF p = "app" /\ id \in optimistic THEN "optimistic" ELSE "-"

\* getChildren(element) of a resource node, lines 52-59 and 101-114, up to the await
\* of the status request.
getChildrenElement_F(p, id) ==
  /\ rev = "final"
  /\ id \in Ids(IF p = "app" THEN apps[p] ELSE dbs[p])
  /\ IF secret = NoKey
       THEN Prompt_F(p, id)
       ELSE /\ auth' = [auth EXCEPT ![p] = secret]
            /\ Cardinality(tasks) < MaxInFlight
            /\ Task("status", p, id, Marked(p, id), "getChildren", "-") \notin tasks
            /\ tasks' = tasks \cup {Task("status", p, id, Marked(p, id), "getChildren", "-")}
            /\ ev' = [Ev("getChildren", p, id) EXCEPT
                        !.req = {Req("/status", p, secret)}]
            /\ UNCHANGED <<rev, track, secret, apps, dbs, owner, optimistic, burstCalls, burstEvents, singleVars>>

\* getChildren(element) from the answer of the status request on, lines 115-200.
statusDone_F(t, r) ==
  /\ rev = "final"
  /\ t \in tasks /\ t.op = "status"
  /\ r \in StatusResponses
  /\ LET is404 == r.kind = "fail" /\ r.code = 404 /\ t.p = "app"
         have == r.kind = "ok" \/ is404
         statusData == IF r.kind = "ok" THEN r.response
                       ELSE IF is404 THEN SyntheticOffline_F ELSE NoSnapshot
     IN ev' = [Ev("status", t.p, t.id) EXCEPT
                 !.ok = r.kind = "ok",
                 !.msg = IF have THEN {} ELSE {"error"},
                 !.snap = statusData,
                 !.retTo = Waiter(t.p, t.id), !.via = "direct",
                 !.ret = IF have THEN StatusRows_F(t.p, statusData, apps[t.p], t.id) ELSE <<>>,
                 !.code = IF r.kind = "ok" THEN 200 ELSE r.code,
                 !.was = t.key]
  /\ tasks' = tasks \ {t}
  /\ UNCHANGED <<rev, track, secret, apps, dbs, auth, owner, optimistic, burstCalls, burstEvents, singleVars>>

\* The setApiKey command, lines 261-267: it opens the input box.
setApiKey_F ==
  /\ rev = "final"
  /\ ~SetApiKeyBusy
  /\ Cardinality(tasks) < MaxInFlight
  /\ tasks' = tasks \cup {Task("setApiKey", "-", "-", NoKey, "-", "-")}
  /\ ev' = Ev("setApiKey", "-", "-")
  /\ UNCHANGED <<rev, track, secret, apps, dbs, auth, owner, optimistic, burstCalls, burstEvents, singleVars>>

\* setApiKey from the answer of the input box on, lines 269-275: a key is stored and
\* both views start their reload, each with the header its instance has now.
setApiKeyInput_F(t, apiKey) ==
  /\ rev = "final"
  /\ t \in tasks /\ t.op = "setApiKey"
  /\ IF apiKey = NoKey
       THEN /\ tasks' = tasks \ {t}
            /\ ev' = [Ev("setApiKeyInput", "-", "-") EXCEPT
                        !.ok = FALSE, !.retTo = t.waiter, !.via = "prompt"]
            /\ UNCHANGED secret
       ELSE /\ Cardinality(tasks) + 1 <= MaxInFlight
            /\ secret' = apiKey
            /\ tasks' = (tasks \ {t}) \cup
                 {Task("loadProjects", p, "-", auth[p], "setApiKey", t.waiter) : p \in Views}
            /\ ev' = [Ev("setApiKeyInput", "-", "-") EXCEPT
                        !.req = {Req("/users/@me", p, auth[p]) : p \in Views}]
  /\ UNCHANGED <<rev, track, apps, dbs, auth, owner, optimistic, burstCalls, burstEvents, singleVars>>

\* A clearProjects that keeps the collections.
clearProjects_Keep(list) == list

\* clearProjects, lines 244-248: both collections emptied, the event fired.
clearProjects_F(list) == <<>>

\* The clearApiKey command up to its await of the delete, lines 278-288.
clearApiKey_F ==
  /\ rev = "final"
  /\ IF secret = NoKey
       THEN /\ ev' = [Ev("clearApiKey", "-", "-") EXCEPT !.ok = FALSE, !.msg = {"warning"}]
            /\ UNCHANGED <<apps, dbs, owner, optimistic, tasks>>
       ELSE /\ Cardinality(tasks) < MaxInFlight
            /\ Task("clearApiKey", "-", "-", NoKey, "-", "-") \notin tasks
            /\ apps' = [p \in Views |-> clearProjects_F(apps[p])]
            /\ dbs' = [p \in Views |-> clearProjects_F(dbs[p])]
            /\ owner' = [p \in Views |-> NoKey]
            /\ optimistic' = {}
            /\ tasks' = tasks \cup {Task("clearApiKey", "-", "-", NoKey, "-", "-")}
            /\ ev' = [Ev("clearApiKey", "-", "-") EXCEPT !.fired = Views]
  /\ UNCHANGED <<rev, track, secret, auth, burstCalls, burstEvents, singleVars>>

\* clearApiKey after the delete, lines 288-289.
clearApiKeyDelete_F(t) ==
  /\ rev = "final"
  /\ t \in tasks /\ t.op = "clearApiKey"
  /\ secret' = NoKey
  /\ tasks' = tasks \ {t}
  /\ ev' = [Ev("clearApiKeyDelete", "-", "-") EXCEPT !.msg = {"info"}]
  /\ UNCHANGED <<rev, track, apps, dbs, auth, owner, optimistic, burstCalls, burstEvents, singleVars>>

Actions == {"stop", "start", "restart"}

\* A command that writes the target status before its POST is answered.
command_Optimistic(action, id) ==
  /\ rev = "final"
  /\ id \in Ids(apps["app"])
  /\ Cardinality(tasks) < MaxInFlight
  /\ Task(action, "app", id, Bearer(auth["app"]), "-", "-") \notin tasks
  /\ tasks' = tasks \cup {Task(action, "app", id, Bearer(auth["app"]), "-", "-")}
  /\ apps' = [apps EXCEPT !["app"] =
                CASE action = "stop" -> setStatus(@, id, "down")
                  [] action = "start" -> setStatus(@, id, "up")
                  [] OTHER -> @]
  /\ ev' = [Ev(action, "app", id) EXCEPT
              !.req = {Req(action, "app", auth["app"])}, !.was = StatusOf(apps["app"], id)]
  /\ UNCHANGED <<rev, track, secret, dbs, auth, owner, optimistic, burstCalls, burstEvents, singleVars>>

\* stopApp, startApp, restartApp up to the await of the POST, lines 298-302, 316-320,
\* 334-338, on a node the apps view has presented.
command_F(action, id) ==
  /\ rev = "final"
  /\ id \in Ids(apps["app"])
  /\ Cardinality(tasks) < MaxInFlight
  /\ Task(action, "app", id, Bearer(auth["app"]), "-", "-") \notin tasks
  /\ tasks' = tasks \cup {Task(action, "app", id, Bearer(auth["app"]), "-", "-")}
  /\ ev' = [Ev(action, "app", id) EXCEPT
              !.req = {Req(action, "app", auth["app"])}, !.was = StatusOf(apps["app"], id)]
  /\ UNCHANGED <<rev, track, secret, apps, dbs, auth, owner, optimistic, burstCalls, burstEvents, singleVars>>

\* A command that leaves the collection as it is.
applyAction_Nothing(action, list, id) == list

\* A command set whose restart marks the app as up, as start does.
applyAction_RestartUp(action, list, id) ==
  CASE action = "stop" -> setStatus(list, id, "down")
    [] OTHER -> setStatus(list, id, "up")

\* What a command does to the apps collection once its POST is accepted:
\* lines 305-306 (stop), 323-324 (start), nothing for restart.
applyAction_F(action, list, id) ==
  CASE action = "stop" -> setStatus(list, id, "down")
    [] action = "start" -> setStatus(list, id, "up")
    [] OTHER -> list

\* A command that writes the target status whatever its POST was answered.
commandDone_Blind(t, r) ==
  /\ rev = "final"
  /\ t \in tasks /\ t.op \in Actions
  /\ r \in PostResponses(t.key)
  /\ tasks' = tasks \ {t}
  /\ apps' = [apps EXCEPT !["app"] = applyAction_F(t.op, @, t.id)]
  /\ ev' = IF r = "2xx"
             THEN [Ev(t.op \o "Done", "app", t.id) EXCEPT
                     !.msg = {"info"}, !.fired = {"app"}, !.was = StatusOf(apps["app"], t.id)]
             ELSE [Ev(t.op \o "Done", "app", t.id) EXCEPT !.ok = FALSE, !.msg = {"error"}]
  /\ UNCHANGED <<rev, track, secret, dbs, auth, owner, optimistic, burstCalls, burstEvents,
                 singleVars>>

\* The statements a command runs once its POST is answered, in their order:
\* lines 303-309, 321-327, 338-341 when it is accepted, the catch clause otherwise.
effects_F(action, r) ==
  IF r # "2xx" THEN <<"showErrorMessage">>
  ELSE IF action = "restart" THEN <<"showInformationMessage", "refresh">>
  ELSE <<"showInformationMessage", "status", "refresh">>

\* The command from the answer of its POST on, lines 303-313, 321-331, 339-346.
commandDone_F(t, r) ==
  /\ rev = "final"
  /\ t \in tasks /\ t.op \in Actions
  /\ r \in PostResponses(t.key)
  /\ tasks' = tasks \ {t}
  /\ IF r = "2xx"
       THEN /\ apps' = [apps EXCEPT !["app"] = applyAction_F(t.op, @, t.id)]
            /\ ev' = [Ev(t.op \o "Done", "app", t.id) EXCEPT
                        !.msg = {"info"}, !.fired = {"app"}, !.was = StatusOf(apps["app"], t.id),
                        !.order = effects_F(t.op, r)]
            /\ optimistic' = IF /\ "optimistic" \in track
                                   /\ t.op # "restart"
                                   /\ find(apps["app"], t.id) # 0
                                THEN optimistic \cup {t.id} ELSE optimistic
            /\ burstCalls' = Bump(burstCalls, {"app"})
            /\ burstEvents' = Bump(burstEvents, {"app"})
       ELSE /\ ev' = [Ev(t.op \o "Done", "app", t.id) EXCEPT
                        !.ok = FALSE, !.msg = {"error"}, !.order = effects_F(t.op, r)]
            /\ UNCHANGED <<apps, optimistic, burstCalls, burstEvents>>
  /\ UNCHANGED <<rev, track, secret, dbs, auth, owner, singleVars>>

\* 100 ms pass without a refresh() call: the window of the current burst closes.
WindowElapses ==
  /\ "bursts" \in track
  /\ \E p \in Views : burstCalls[p] > 0
  /\ burstCalls' = none2
  /\ burstEvents' = none2
  /\ ev' = [Ev("window", "-", "-") EXCEPT !.calls = burstCalls, !.events = burstEvents]
  /\ UNCHANGED <<rev, track, secret, apps, dbs, auth, tasks, owner, optimistic, singleVars>>

InitCommon ==
  /\ secret \in {NoKey, "k1"}
  /\ apps = [p \in Views |-> <<>>]
  /\ dbs = [p \in Views |-> <<>>]
  /\ tasks = {}
  /\ owner = [p \in Views |-> NoKey]
  /\ optimistic = {}
  /\ burstCalls = none2
  /\ burstEvents = none2
  /\ ev = Ev("init", "-", "-")

\* The constructor, lines 39-46: an axios instance without Authorization header.
Init_F ==
  /\ rev = "final"
  /\ track = {}
  /\ InitCommon
  /\ auth = [p \in Views |-> NoKey]
  /\ refreshTimeout = "null"
  /\ statusUpdateInterval = "null"
  /\ projects = <<>>
  /\ openedProjectId = "null"

\* Every step of the final revision but the answer to the input box.
Core_F ==
  \/ \E p \in Views : getChildrenRoot_F(p)
  \/ \E p \in Views, id \in AppIds \cup DbIds : getChildrenElement_F(p, id)
  \/ \E t \in tasks, r \in UserResponsesOf(Listings) : loadProjectsDone_F(t, r)
  \/ \E t \in tasks, r \in StatusResponses : statusDone_F(t, r)
  \/ setApiKey_F
  \/ clearApiKey_F
  \/ \E t \in tasks : clearApiKeyDelete_F(t)
  \/ \E a \in Actions, id \in AppIds : command_F(a, id)
  \/ \E t \in tasks, r \in {"2xx", "fail"} : commandDone_F(t, r)

\* The user types the one key of the account, or cancels the input box.
Next_F ==
  \/ Core_F
  \/ \E t \in tasks, k \in {"k1", NoKey} : setApiKeyInput_F(t, k)

SpecFinal == Init_F /\ [][Next_F]_vars

\* The final revision with the 100 ms windows of refresh() followed.
Init_FT ==
  /\ Init_F!1 /\ track = {"bursts"} /\ Init_F!3 /\ Init_F!4
  /\ Init_F!5 /\ Init_F!6 /\ Init_F!7 /\ Init_F!8

Next_FT == Next_F \/ WindowElapses

SpecFinalTimed == Init_FT /\ [][Next_FT]_vars

\* The final revision with a user who changes accounts: any key may be typed.
Next_FK ==
  \/ Core_F
  \/ \E t \in tasks, k \in Keys \cup {NoKey} : setApiKeyInput_F(t, k)

SpecFinalKeys == Init_F /\ [][Next_FK]_vars

\* The viewLogs command up to the await of its request, lines 292-296 and 223-225,
\* on a node the apps view has presented.
viewLogs_F(id) ==
  /\ rev = "final"
  /\ id \in Ids(apps["app"])
  /\ Cardinality(tasks) < MaxInFlight
  /\ Task("viewLogs", "app", id, Bearer(auth["app"]), "-", "-") \notin tasks
  /\ tasks' = tasks \cup {Task("viewLogs", "app", id, Bearer(auth["app"]), "-", "-")}
  /\ ev' = [Ev("viewLogs", "app", id) EXCEPT !.req = {Req("/logs", "app", auth["app"])}]
  /\ UNCHANGED <<rev, track, secret, apps, dbs, auth, owner, optimistic, burstCalls, burstEvents, singleVars>>

\* viewLogs from the answer of its request on, lines 226-233: the logs are shown
\* in an output channel, or an error message is.
viewLogsDone_F(t, r) ==
  /\ rev = "final"
  /\ t \in tasks /\ t.op = "viewLogs"
  /\ r \in PostResponses(t.key)
  /\ tasks' = tasks \ {t}
  /\ ev' = IF r = "2xx"
             THEN [Ev("viewLogsDone", "app", t.id) EXCEPT !.ret = <<"logs">>]
             ELSE [Ev("viewLogsDone", "app", t.id) EXCEPT !.ok = FALSE, !.msg = {"error"}]
  /\ UNCHANGED <<rev, track, secret, apps, dbs, auth, owner, optimistic, burstCalls, burstEvents, singleVars>>

\* The final revision with its viewLogs command.
Next_FL ==
  \/ Next_F
  \/ \E id \in AppIds : viewLogs_F(id)
  \/ \E t \in tasks, r \in {"2xx", "fail"} : viewLogsDone_F(t, r)

SpecFinalLogs == Init_F /\ [][Next_FL]_vars

\* The final revision with the statuses the commands wrote followed.
Init_FO ==
  /\ Init_F!1 /\ track = {"optimistic"} /\ Init_F!3 /\ Init_F!4
  /\ Init_F!5 /\ Init_F!6 /\ Init_F!7 /\ Init_F!8

SpecFinalOptimistic == Init_FO /\ [][Next_F]_vars

-----------------------------------------------------------------------------
(* Two-view revision: src/src/extension.ts, lines 1-260 *)

\* getChildren root level, lines 45-72: one node per entry of the view's collection.
RootNodes_T(p, a, d) ==
  LET list == IF p = "app" THEN a ELSE d IN
  [i \in 1..Len(list) |->
     [id |-> list[i].id,
      icon |-> IF list[i].status = "up" THEN "charts.green" ELSE "charts.red"]]

\* The snapshot getChildren substitutes for a 404 of an app, lines 86-99: its
\* network strings are the literals "569.90KB / 36.41KB" and "18.78KB / 1.20KB".
SyntheticOffline_T == Snapshot(FALSE, 0, 0, 0, <<569, 36>>, <<18, 1>>, "down", 0)

\* The four rows of an expanded app, lines 106-162.  The limit is the template
\* string of line 110, never empty: -1 stands for the text "undefinedMB".
StatusRows_T(p, statusData, list, id) ==
  IF p = "app"
    THEN LET userApp == find(list, id)
             ramLimit == IF userApp # 0 THEN list[userApp].ram ELSE 0 - 1
         IN << [description |-> "Status",
                label |-> IF statusData.running THEN "Ligado" ELSE "Desligado"],
               [description |-> "RAM", label |-> <<statusData.ram, ramLimit>>],
               [description |-> "CPU", label |-> statusData.cpu],
               [description |-> "Uptime", label |-> statusData.uptime \div 60] >>
    ELSE <<>>

\* Line 40: the axios instance is created once, with the key stored at that time.
create_T(a, p) == IF a[p] = NoClient THEN [a EXCEPT ![p] = secret] ELSE a

\* getChildren(undefined), lines 38-72, up to its first await or its return.
getChildrenRoot_T(p) ==
  /\ rev = "twoview"
  /\ IF secret = NoKey
       THEN Prompt_F(p, "-")
       ELSE /\ auth' = create_T(auth, p)
            /\ IF apps[p] = <<>> /\ dbs[p] = <<>>
                 THEN /\ Cardinality(tasks) < MaxInFlight
                      /\ Task("loadProjects", p, "-", auth'[p], "getChildren", "-") \notin tasks
                      /\ tasks' = tasks \cup
                           {Task("loadProjects", p, "-", auth'[p], "getChildren", "-")}
                      /\ ev' = [Ev("getChildren", p, "-") EXCEPT
                                  !.req = {Req("/users/@me", p, auth'[p])}]
                 ELSE /\ ev' = [Ev("getChildren", p, "-") EXCEPT
                                  !.retTo = p, !.via = "direct",
                                  !.ret = RootNodes_T(p, apps[p], dbs[p])]
                      /\ UNCHANGED tasks
            /\ UNCHANGED <<rev, track, secret, apps, dbs, owner, optimistic, burstCalls, burstEvents, singleVars>>

\* loadProjects, lines 172-177, from the answer of GET /users/@me on.  It has no
\* try: a failed request rejects the getChildren that awaits it (line 43), which
\* then returns nothing; the reloads setApiKey starts are awaited by nobody.
loadProjectsDone_T(t, r) ==
  /\ rev = "twoview"
  /\ t \in tasks /\ t.op = "loadProjects"
  /\ r \in UserResponses(t.key)
  /\ LET ok == r.kind = "envelope" /\ r.status = "success"
         a2 == IF ok THEN [apps EXCEPT ![t.p] = r.response.applications] ELSE apps
         d2 == IF ok THEN [dbs EXCEPT ![t.p] = r.response.databases] ELSE dbs
     IN /\ apps' = a2
        /\ dbs' = d2
        /\ owner' = IF ok THEN [owner EXCEPT ![t.p] = t.key] ELSE owner
        /\ optimistic' = IF ok /\ t.p = "app" THEN {} ELSE optimistic
        /\ tasks' = tasks \ {t}
        /\ ev' = IF t.parent # "getChildren"
                   THEN [Ev("loadProjects", t.p, "-") EXCEPT
                           !.ok = ok, !.resp = IF ok THEN r.response ELSE <<>>]
                   ELSE IF r.kind = "fail"
                     THEN [Ev("loadProjects", t.p, "-") EXCEPT
                             !.ok = FALSE, !.retTo = t.p, !.via = "rejected"]
                     ELSE [Ev("loadProjects", t.p, "-") EXCEPT
                             !.ok = ok, !.resp = IF ok THEN r.response ELSE <<>>,
                             !.retTo = t.p, !.via = "direct",
                             !.ret = RootNodes_T(t.p, a2[t.p], d2[t.p])]
  /\ UNCHANGED <<rev, track, secret, auth, burstCalls, burstEvents, singleVars>>

\* getChildren(element) of a resource node, lines 38-40 and 75-82.
getChildrenElement_T(p, id) ==
  /\ rev = "twoview"
  /\ id \in Ids(IF p = "app" THEN apps[p] ELSE dbs[p])
  /\ IF secret = NoKey
       THEN Prompt_F(p, id)
       ELSE /\ auth' = create_T(auth, p)
            /\ Cardinality(tasks) < MaxInFlight
            /\ Task("status", p, id, "-", "getChildren", "-") \notin tasks
            /\ tasks' = tasks \cup {Task("status", p, id, "-", "getChildren", "-")}
            /\ ev' = [Ev("getChildren", p, id) EXCEPT
                        !.req = {Req("/status", p, auth'[p])}]
            /\ UNCHANGED <<rev, track, secret, apps, dbs, owner, optimistic, burstCalls, burstEvents, singleVars>>

\* getChildren(element) from the answer of the status request on, lines 83-165.
statusDone_T(t, r) ==
  /\ rev = "twoview"
  /\ t \in tasks /\ t.op = "status"
  /\ r \in StatusResponses
  /\ LET is404 == r.kind = "fail" /\ r.code = 404 /\ t.p = "app"
         have == r.kind = "ok" \/ is404
         statusData == IF r.kind = "ok" THEN r.response
                       ELSE IF is404 THEN SyntheticOffline_T ELSE NoSnapshot
     IN ev' = [Ev("status", t.p, t.id) EXCEPT
                 !.ok = r.kind = "ok",
                 !.msg = IF have THEN {} ELSE {"error"},
                 !.snap = statusData,
                 !.retTo = Waiter(t.p, t.id), !.via = "direct",
                 !.ret = IF have THEN StatusRows_T(t.p, statusData, apps[t.p], t.id) ELSE <<>>,
                 !.code = IF r.kind = "ok" THEN 200 ELSE r.code]
  /\ tasks' = tasks \ {t}
  /\ UNCHANGED <<rev, track, secret, apps, dbs, auth, owner, optimistic, burstCalls, burstEvents, singleVars>>

\* The setApiKey command, lines 204-206: it opens the input box.
setApiKey_T ==
  /\ rev = "twoview"
  /\ ~SetApiKeyBusy
  /\ Cardinality(tasks) < MaxInFlight
  /\ tasks' = tasks \cup {Task("setApiKey", "-", "-", NoKey, "-", "-")}
  /\ ev' = Ev("setApiKey", "-", "-")
  /\ UNCHANGED <<rev, track, secret, apps, dbs, auth, owner, optimistic, burstCalls, burstEvents, singleVars>>

\* setApiKey from the answer of the input box on, lines 207-212: the key is stored,
\* each provider that has an axios instance starts a reload nobody awaits, both
\* views are refreshed at once and the command ends.
setApiKeyInput_T(t, apiKey) ==
  /\ rev = "twoview"
  /\ t \in tasks /\ t.op = "setApiKey"
  /\ IF apiKey = NoKey
       THEN /\ tasks' = tasks \ {t}
            /\ ev' = [Ev("setApiKeyInput", "-", "-") EXCEPT
                        !.ok = FALSE, !.retTo = t.waiter, !.via = "prompt"]
            /\ UNCHANGED <<secret, burstCalls, burstEvents>>
       ELSE LET loading == {p \in Views : auth[p] # NoClient}
                started == {Task("loadProjects", p, "-", auth[p], "detached", "-") : p \in loading}
            IN /\ Cardinality((tasks \ {t}) \cup started) <= MaxInFlight
               /\ secret' = apiKey
               /\ tasks' = (tasks \ {t}) \cup started
               /\ ev' = [Ev("setApiKeyInput", "-", "-") EXCEPT
                           !.req = {Req("/users/@me", p, auth[p]) : p \in loading},
                           !.fired = Views, !.msg = {"info"},
                           !.retTo = t.waiter, !.via = "prompt"]
               /\ burstCalls' = Bump(burstCalls, Views)
               /\ burstEvents' = Bump(burstEvents, Views)
  /\ UNCHANGED <<rev, track, apps, dbs, auth, owner, optimistic, singleVars>>

\* stopApp, startApp, restartApp up to the await of the POST, lines 215-218, 231-234,
\* 247-250, on a node the apps view has presented.
command_T(action, id) ==
  /\ rev = "twoview"
  /\ id \in Ids(apps["app"])
  /\ Cardinality(tasks) < MaxInFlight
  /\ Task(action, "app", id, Bearer(auth["app"]), "-", "-") \notin tasks
  /\ tasks' = tasks \cup {Task(action, "app", id, Bearer(auth["app"]), "-", "-")}
  /\ ev' = [Ev(action, "app", id) EXCEPT
              !.req = {Req(action, "app", auth["app"])}, !.was = StatusOf(apps["app"], id)]
  /\ UNCHANGED <<rev, track, secret, apps, dbs, auth, owner, optimistic, burstCalls, burstEvents, singleVars>>

\* What a command does to the apps collection once its POST is accepted:
\* lines 221-222 (stop), 237-238 (start), nothing for restart.
applyAction_T(action, list, id) ==
  CASE action = "stop" -> setStatus(list, id, "down")
    [] action = "start" -> setStatus(list, id, "up")
    [] OTHER -> list

\* The statements a command runs once its POST is answered, in their order:
\* lines 219-225, 235-241, 250-251 when it is accepted, the catch clause otherwise.
effects_T(action, r) ==
  IF r # "2xx" THEN <<"showErrorMessage">>
  ELSE IF action = "restart" THEN <<"showInformationMessage", "refresh">>
  ELSE <<"showInformationMessage", "status", "refresh">>

\* The command from the answer of its POST on, lines 219-228, 235-244, 251-255.
commandDone_T(t, r) ==
  /\ rev = "twoview"
  /\ t \in tasks /\ t.op \in Actions
  /\ r \in PostResponses(t.key)
  /\ tasks' = tasks \ {t}
  /\ IF r = "2xx"
       THEN /\ apps' = [apps EXCEPT !["app"] = applyAction_T(t.op, @, t.id)]
            /\ ev' = [Ev(t.op \o "Done", "app", t.id) EXCEPT
                        !.msg = {"info"}, !.fired = {"app"}, !.was = StatusOf(apps["app"], t.id),
                        !.order = effects_T(t.op, r)]
            /\ optimistic' = IF /\ "optimistic" \in track
                                   /\ t.op # "restart"
                                   /\ find(apps["app"], t.id) # 0
                                THEN optimistic \cup {t.id} ELSE optimistic
            /\ burstCalls' = Bump(burstCalls, {"app"})
            /\ burstEvents' = Bump(burstEvents, {"app"})
       ELSE /\ ev' = [Ev(t.op \o "Done", "app", t.id) EXCEPT
                        !.ok = FALSE, !.msg = {"error"}, !.order = effects_T(t.op, r)]
            /\ UNCHANGED <<apps, optimistic, burstCalls, burstEvents>>
  /\ UNCHANGED <<rev, track, secret, dbs, auth, owner, singleVars>>

\* Line 31: no axios instance before the first getChildren that finds a key.
Init_T ==
  /\ rev = "twoview"
  /\ track = {}
  /\ InitCommon
  /\ auth = [p \in Views |-> NoClient]
  /\ refreshTimeout = "null"
  /\ statusUpdateInterval = "null"
  /\ projects = <<>>
  /\ openedProjectId = "null"

Next_T ==
  \/ \E p \in Views : getChildrenRoot_T(p)
  \/ \E t \in tasks, r \in UserResponsesOf(Listings) : loadProjectsDone_T(t, r)
  \/ \E p \in Views, id \in AppIds \cup DbIds : getChildrenElement_T(p, id)
  \/ \E t \in tasks, r \in StatusResponses : statusDone_T(t, r)
  \/ setApiKey_T
  \/ \E t \in tasks, k \in {"k1", NoKey} : setApiKeyInput_T(t, k)
  \/ \E a \in Actions, id \in AppIds : command_T(a, id)
  \/ \E t \in tasks, r \in {"2xx", "fail"} : commandDone_T(t, r)

SpecTwoView == Init_T /\ [][Next_T]_vars

\* The two revisions that keep one provider per view.
SpecViews == (Init_F \/ Init_T) /\ [][Next_F \/ Next_T]_vars

-----------------------------------------------------------------------------
(* Grouped revision: src/src/extension.ts, lines 262-572.  One provider, named
   "tree" here, holds both collections; its nodes are coloured by the running
   flag the bulk status requests maintain. *)

One == {"tree"}

\* What GET /apps/status and GET /databases/status answer with.

\* A refresh() that arms a new timer and leaves a running one uncancelled.
refresh_Leak(timeout) == IF timeout = "pending" THEN "pending twice" ELSE "pending"

\* refresh(), lines 439-442: the timer the handle names is cancelled if it is
\* still running, and a new one is armed; the handle names the new one.
refresh_G(timeout) == "pending"

AppsStatusLists ==
  { <<[id |-> "a1", running |-> TRUE], [id |-> "a2", running |-> FALSE]>>,
    <<[id |-> "a1", running |-> FALSE], [id |-> "a2", running |-> TRUE]>> }

DbsStatusLists == { <<[id |-> "d1", running |-> TRUE]>> }

BulkResponses(L) == {[kind |-> "fail"]} \cup {[kind |-> "ok", response |-> l] : l \in L}

\* Lines 481-486: a failed bulk request counts as the empty list.
fetched(r) == IF r.kind = "fail" THEN <<>> ELSE r.response

\* Lines 490-491, 499-500: status?.running || false.
runningOf(statusList, id) ==
  IF find(statusList, id) = 0 THEN FALSE ELSE statusList[find(statusList, id)].running

\* Lines 489-505: the flags written, and whether one of them differed.
applyStatuses_G(list, statusList) ==
  [i \in 1..Len(list) |-> [list[i] EXCEPT !.running = runningOf(statusList, list[i].id)]]

\* An updateStatuses that always finds a change.
hasChanges_Always(list, statusList) == TRUE

hasChanges_G(list, statusList) ==
  \E i \in 1..Len(list) : list[i].running # runningOf(statusList, list[i].id)

\* Lines 456-457: the entries of a listing, each with running: false.
mapProjects_G(list) ==
  [i \in 1..Len(list) |->
     [id |-> list[i].id, status |-> list[i].status, ram |-> list[i].ram, running |-> FALSE]]

\* Lines 340-356 and 366-380: the children of a group, coloured by running.
Children_G(list) ==
  [i \in 1..Len(list) |->
     [id |-> list[i].id,
      icon |-> IF list[i].running THEN "charts.green" ELSE "charts.red"]]

\* Lines 332-382: the two groups getChildren(undefined) returns.
RootNodes_G(a, d) == [apps |-> Children_G(a), dbs |-> Children_G(d)]

\* The three rows of an expanded resource, lines 393-432; userApps has an entry
\* for exactly the apps of the collection (lines 459-467, 447).
StatusRows_G(statusData, list, id) ==
  LET userApp == find(list, id)
      ramLimit == IF userApp # 0 /\ list[userApp].ram # 0
                    THEN list[userApp].ram ELSE statusData.ram
  IN << [description |-> "Status",
         label |-> IF statusData.running THEN "Ligado" ELSE "Desligado"],
        [description |-> "RAM", label |-> <<statusData.ram, ramLimit>>],
        [description |-> "Uptime", label |-> statusData.uptime \div 60] >>

\* Lines 320-325: the axios instance is created once, with the key stored then.
create_G(a) == IF a["tree"] = NoClient THEN [a EXCEPT !["tree"] = secret] ELSE a

\* getChildren(undefined), lines 313-383, up to its first await or its return.
getChildrenRoot_G ==
  /\ rev = "grouped"
  /\ statusUpdateInterval = "running"
  /\ IF secret = NoKey
       THEN Prompt_F("tree", "-")
       ELSE /\ auth' = create_G(auth)
            /\ IF apps["tree"] = <<>> /\ dbs["tree"] = <<>>
                 THEN /\ Cardinality(tasks) < MaxInFlight
                      /\ ~\E u \in tasks : u.op = "loadProjects" \/ u.parent = "loadProjects"
                      /\ tasks' = tasks \cup
                           {Task("loadProjects", "tree", "-", auth'["tree"], "getChildren", "-")}
                      /\ ev' = [Ev("getChildren", "tree", "-") EXCEPT
                                  !.req = {Req("/users/@me", "tree", auth'["tree"])}]
                 ELSE /\ ev' = [Ev("getChildren", "tree", "-") EXCEPT
                                  !.retTo = "tree", !.via = "direct",
                                  !.ret = RootNodes_G(apps["tree"], dbs["tree"])]
                      /\ UNCHANGED tasks
            /\ UNCHANGED <<rev, track, secret, apps, dbs, owner, optimistic, burstCalls, burstEvents, singleVars>>

\* loadProjects, lines 450-474, from the answer of GET /users/@me on: on success
\* the collections are replaced, refresh() is called and updateStatuses starts its
\* two requests; otherwise getChildren goes on to line 332 and returns the groups.
loadProjectsDone_G(t, r) ==
  /\ rev = "grouped"
  /\ t \in tasks /\ t.op = "loadProjects"
  /\ r \in UserResponses(t.key)
  /\ IF r.kind = "envelope" /\ r.status = "success"
       THEN /\ apps' = [apps EXCEPT !["tree"] = mapProjects_G(r.response.applications)]
            /\ dbs' = [dbs EXCEPT !["tree"] = mapProjects_G(r.response.databases)]
            /\ owner' = [owner EXCEPT !["tree"] = t.key]
            /\ refreshTimeout' = refresh_G(refreshTimeout)
            /\ tasks' = (tasks \ {t}) \cup
                 {Task("updateStatuses", "tree", "-", "-", "loadProjects", "-")}
            /\ ev' = [Ev("loadProjects", "tree", "-") EXCEPT
                        !.resp = r.response, !.scheduled = TRUE, !.code = 200,
                        !.req = {Req("/apps/status", "tree", auth["tree"]),
                                 Req("/databases/status", "tree", auth["tree"])}]
       ELSE /\ tasks' = tasks \ {t}
            /\ ev' = [Ev("loadProjects", "tree", "-") EXCEPT
                        !.ok = FALSE, !.msg = IF r.kind = "fail" THEN {"error"} ELSE {},
                        !.code = IF r.kind = "envelope" THEN 200 ELSE 0,
                        !.retTo = "tree", !.via = "direct",
                        !.ret = RootNodes_G(apps["tree"], dbs["tree"])]
            /\ UNCHANGED <<apps, dbs, owner, refreshTimeout>>
  /\ UNCHANGED <<rev, track, secret, auth, optimistic, burstCalls, burstEvents,
                 statusUpdateInterval, projects, openedProjectId>>

\* The poll timer fires, lines 513-515 and 476-483: updateStatuses up to its await.
tick_G ==
  /\ rev = "grouped"
  /\ statusUpdateInterval = "running"
  /\ IF auth["tree"] = NoClient
       THEN /\ ev' = [Ev("tick", "tree", "-") EXCEPT !.ok = FALSE]
            /\ UNCHANGED tasks
       ELSE /\ Cardinality(tasks) < MaxInFlight
            /\ Task("updateStatuses", "tree", "-", "-", "timer", "-") \notin tasks
            /\ tasks' = tasks \cup {Task("updateStatuses", "tree", "-", "-", "timer", "-")}
            /\ ev' = [Ev("tick", "tree", "-") EXCEPT
                        !.req = {Req("/apps/status", "tree", auth["tree"]),
                                 Req("/databases/status", "tree", auth["tree"])}]
  /\ UNCHANGED <<rev, track, secret, apps, dbs, auth, owner, optimistic, burstCalls, burstEvents, singleVars>>

\* An updateStatuses whose failed request clears the poll timer.
updateStatusesDone_Halts(t, ra, rd) ==
  /\ rev = "grouped"
  /\ t \in tasks /\ t.op = "updateStatuses"
  /\ LET appsStatus == fetched(ra)
         dbsStatus == fetched(rd)
         hasChanges == \/ hasChanges_G(apps["tree"], appsStatus)
                       \/ hasChanges_G(dbs["tree"], dbsStatus)
         a2 == applyStatuses_G(apps["tree"], appsStatus)
         d2 == applyStatuses_G(dbs["tree"], dbsStatus)
         seen == [Ev("updateStatuses", "tree", "-") EXCEPT
                    !.was = [apps |-> apps["tree"], dbs |-> dbs["tree"]],
                    !.resp = [apps |-> appsStatus, dbs |-> dbsStatus],
                    !.via = t.parent,
                    !.scheduled = hasChanges]
     IN /\ apps' = [apps EXCEPT !["tree"] = a2]
        /\ dbs' = [dbs EXCEPT !["tree"] = d2]
        /\ refreshTimeout' = IF hasChanges THEN refresh_G(refreshTimeout) ELSE refreshTimeout
        /\ ev' = IF t.parent = "loadProjects"
                   THEN [seen EXCEPT !.retTo = "tree", !.ret = RootNodes_G(a2, d2)]
                   ELSE seen
  /\ statusUpdateInterval' =
       IF ra.kind = "fail" \/ rd.kind = "fail" THEN "cleared" ELSE statusUpdateInterval
  /\ tasks' = tasks \ {t}
  /\ UNCHANGED <<rev, track, secret, auth, owner, optimistic, burstCalls, burstEvents,
                 projects, openedProjectId>>

\* updateStatuses from the answers of its two requests on, lines 485-507; when
\* loadProjects awaited it, getChildren then returns the groups (lines 332-382).
updateStatusesDone_G(t, ra, rd) ==
  /\ rev = "grouped"
  /\ t \in tasks /\ t.op = "updateStatuses"
  /\ LET appsStatus == fetched(ra)
         dbsStatus == fetched(rd)
         hasChanges == \/ hasChanges_G(apps["tree"], appsStatus)
                       \/ hasChanges_G(dbs["tree"], dbsStatus)
         a2 == applyStatuses_G(apps["tree"], appsStatus)
         d2 == applyStatuses_G(dbs["tree"], dbsStatus)
         seen == [Ev("updateStatuses", "tree", "-") EXCEPT
                    !.was = [apps |-> apps["tree"], dbs |-> dbs["tree"]],
                    !.resp = [apps |-> appsStatus, dbs |-> dbsStatus],
                    !.via = t.parent,
                    !.scheduled = hasChanges]
     IN /\ apps' = [apps EXCEPT !["tree"] = a2]
        /\ dbs' = [dbs EXCEPT !["tree"] = d2]
        /\ refreshTimeout' = IF hasChanges THEN refresh_G(refreshTimeout) ELSE refreshTimeout
        /\ ev' = IF t.parent = "loadProjects"
                   THEN [seen EXCEPT !.retTo = "tree", !.ret = RootNodes_G(a2, d2)]
                   ELSE seen
  /\ tasks' = tasks \ {t}
  /\ UNCHANGED <<rev, track, secret, auth, owner, optimistic, burstCalls, burstEvents,
                 statusUpdateInterval, projects, openedProjectId>>

\* The 100 ms timer of refresh() expires, line 441: the tree-change event.
refreshTimeoutFires ==
  /\ refreshTimeout = "pending"
  /\ refreshTimeout' = "fired"
  /\ ev' = [Ev("refreshTimeout", "tree", "-") EXCEPT !.fired = One]
  /\ UNCHANGED <<rev, track, secret, apps, dbs, auth, tasks, owner, optimistic, burstCalls,
                 burstEvents, statusUpdateInterval, projects, openedProjectId>>

\* getChildren(element) of an app or database node, lines 313-325 and 385-390.
getChildrenElement_G(kind, id) ==
  /\ rev = "grouped"
  /\ statusUpdateInterval = "running"
  /\ id \in Ids(IF kind = "app" THEN apps["tree"] ELSE dbs["tree"])
  /\ IF secret = NoKey
       THEN Prompt_F("tree", id)
       ELSE /\ auth' = create_G(auth)
            /\ Cardinality(tasks) < MaxInFlight
            /\ Task("status", kind, id, "-", "getChildren", "-") \notin tasks
            /\ tasks' = tasks \cup {Task("status", kind, id, "-", "getChildren", "-")}
            /\ ev' = [Ev("getChildren", kind, id) EXCEPT
                        !.req = {Req("/status", kind, auth'["tree"])}]
            /\ UNCHANGED <<rev, track, secret, apps, dbs, owner, optimistic, burstCalls, burstEvents, singleVars>>

\* getChildren(element) from the answer of the status request on, lines 390-436:
\* any failure leaves statusRes null, and the node's own children (none) are returned.
statusDone_G(t, r) ==
  /\ rev = "grouped"
  /\ t \in tasks /\ t.op = "status"
  /\ r \in StatusResponses
  /\ ev' = [Ev("status", t.p, t.id) EXCEPT
              !.ok = r.kind = "ok",
              !.snap = IF r.kind = "ok" THEN r.response ELSE NoSnapshot,
              !.retTo = "tree.element", !.via = "direct",
              !.ret = IF r.kind = "ok"
                        THEN StatusRows_G(r.response, apps["tree"], t.id) ELSE <<>>,
              !.code = IF r.kind = "ok" THEN 200 ELSE r.code]
  /\ tasks' = tasks \ {t}
  /\ UNCHANGED <<rev, track, secret, apps, dbs, auth, owner, optimistic, burstCalls, burstEvents, singleVars>>

\* clearProjects, lines 444-448.
clearProjects_G(list) == <<>>

\* The setApiKey command, lines 540-546: it opens the input box.
setApiKey_G ==
  /\ rev = "grouped"
  /\ statusUpdateInterval = "running"
  /\ ~SetApiKeyBusy
  /\ Cardinality(tasks) < MaxInFlight
  /\ tasks' = tasks \cup {Task("setApiKey", "-", "-", NoKey, "-", "-")}
  /\ ev' = Ev("setApiKey", "-", "-")
  /\ UNCHANGED <<rev, track, secret, apps, dbs, auth, owner, optimistic, burstCalls, burstEvents, singleVars>>

\* setApiKey from the answer of the input box on, lines 547-552.
setApiKeyInput_G(t, apiKey) ==
  /\ rev = "grouped"
  /\ t \in tasks /\ t.op = "setApiKey"
  /\ tasks' = tasks \ {t}
  /\ IF apiKey = NoKey
       THEN /\ ev' = [Ev("setApiKeyInput", "-", "-") EXCEPT
                        !.ok = FALSE, !.retTo = t.waiter, !.via = "prompt"]
            /\ UNCHANGED <<secret, apps, dbs, owner, refreshTimeout>>
       ELSE /\ secret' = apiKey
            /\ apps' = [apps EXCEPT !["tree"] = clearProjects_G(@)]
            /\ dbs' = [dbs EXCEPT !["tree"] = clearProjects_G(@)]
            /\ owner' = [owner EXCEPT !["tree"] = NoKey]
            /\ refreshTimeout' = refresh_G(refreshTimeout)
            /\ ev' = [Ev("setApiKeyInput", "-", "-") EXCEPT
                        !.msg = {"info"}, !.scheduled = TRUE,
                        !.retTo = t.waiter, !.via = "prompt"]
  /\ UNCHANGED <<rev, track, auth, optimistic, burstCalls, burstEvents,
                 statusUpdateInterval, projects, openedProjectId>>

\* The clearApiKey command, lines 554-559.
clearApiKey_G ==
  /\ rev = "grouped"
  /\ statusUpdateInterval = "running"
  /\ secret' = NoKey
  /\ apps' = [apps EXCEPT !["tree"] = clearProjects_G(@)]
  /\ dbs' = [dbs EXCEPT !["tree"] = clearProjects_G(@)]
  /\ owner' = [owner EXCEPT !["tree"] = NoKey]
  /\ refreshTimeout' = refresh_G(refreshTimeout)
  /\ ev' = [Ev("clearApiKey", "-", "-") EXCEPT !.msg = {"info"}, !.scheduled = TRUE]
  /\ UNCHANGED <<rev, track, auth, tasks, optimistic, burstCalls, burstEvents,
                 statusUpdateInterval, projects, openedProjectId>>

\* A stop that starts the timer again when it finds it stopped.
stopStatusUpdateInterval_Toggle(handle) == IF handle = "running" THEN "cleared" ELSE "running"

\* stopStatusUpdateInterval, lines 517-519: clearInterval on the handle, which the
\* field keeps; clearing a handle that is cleared already does nothing.
stopStatusUpdateInterval_G(handle) == IF handle = "running" THEN "cleared" ELSE handle

\* The extension is deactivated, line 569, or stopStatusUpdateInterval is called
\* again: the method is public and takes no argument.
dispose_G ==
  /\ rev = "grouped"
  /\ statusUpdateInterval' = stopStatusUpdateInterval_G(statusUpdateInterval)
  /\ ev' = [Ev("dispose", "-", "-") EXCEPT !.was = statusUpdateInterval]
  /\ UNCHANGED <<rev, track, secret, apps, dbs, auth, tasks, owner, optimistic, burstCalls,
                 burstEvents, refreshTimeout, projects, openedProjectId>>

\* The constructor, lines 298-307: no axios instance, the poll timer started.
Init_G ==
  /\ rev = "grouped"
  /\ track = {}
  /\ secret \in {NoKey, "k1"}
  /\ apps = [p \in One |-> <<>>]
  /\ dbs = [p \in One |-> <<>>]
  /\ auth = [p \in One |-> NoClient]
  /\ tasks = {}
  /\ refreshTimeout = "null"
  /\ statusUpdateInterval = "running"
  /\ projects = <<>>
  /\ openedProjectId = "null"
  /\ owner = [p \in One |-> NoKey]
  /\ optimistic = {}
  /\ burstCalls = [p \in One |-> 0]
  /\ burstEvents = [p \in One |-> 0]
  /\ ev = Ev("init", "-", "-")

Core_G ==
  \/ getChildrenRoot_G
  \/ \E t \in tasks, r \in UserResponsesOf(Listings) : loadProjectsDone_G(t, r)
  \/ tick_G
  \/ \E t \in tasks, ra \in BulkResponses(AppsStatusLists), rd \in BulkResponses(DbsStatusLists) :
       updateStatusesDone_G(t, ra, rd)
  \/ refreshTimeoutFires
  \/ \E kind \in Views, id \in AppIds \cup DbIds : getChildrenElement_G(kind, id)
  \/ \E t \in tasks, r \in StatusResponses : statusDone_G(t, r)
  \/ setApiKey_G
  \/ clearApiKey_G
  \/ dispose_G

Next_G ==
  \/ Core_G
  \/ \E t \in tasks, k \in {"k1", NoKey} : setApiKeyInput_G(t, k)

SpecGrouped == Init_G /\ [][Next_G]_vars

\* The grouped revision with a user who changes accounts: any key may be typed.
Next_GK ==
  \/ Core_G
  \/ \E t \in tasks, k \in Keys \cup {NoKey} : setApiKeyInput_G(t, k)

SpecGroupedKeys == Init_G /\ [][Next_GK]_vars

-----------------------------------------------------------------------------
(* Action-row revision: src/unnamed/part_000, lines 133-413.  One provider with
   one array, projects, whose running flag starts undefined: the flag is kept
   here as one of "undefined", "true", "false". *)


\* refresh(), lines 239-246: as in the grouped revision.
refresh_A(timeout) == "pending"

Str(b) == IF b THEN "true" ELSE "false"

\* Lines 261-264: apps then databases, each with its type and running: undefined.
mapProjects_A(list, type) ==
  [i \in 1..Len(list) |->
     [id |-> list[i].id, type |-> type, status |-> list[i].status, ram |-> list[i].ram,
      running |-> "undefined"]]

\* Lines 288-296: the flags written, and whether one of them differed.
newRunning_A(proj, appsStatus, dbsStatus) ==
  Str(runningOf(IF proj.type = "app" THEN appsStatus ELSE dbsStatus, proj.id))

applyStatuses_A(list, appsStatus, dbsStatus) ==
  [i \in 1..Len(list) |->
     [list[i] EXCEPT !.running = newRunning_A(list[i], appsStatus, dbsStatus)]]

hasChanges_A(list, appsStatus, dbsStatus) ==
  \E i \in 1..Len(list) : list[i].running # newRunning_A(list[i], appsStatus, dbsStatus)

\* Lines 191-206: one node per project, gray while its flag is undefined.
RootNodes_A(list) ==
  [i \in 1..Len(list) |->
     [id |-> list[i].id,
      icon |-> CASE list[i].running = "undefined" -> "charts.gray"
                 [] list[i].running = "true" -> "charts.green"
                 [] OTHER -> "charts.red"]]

\* Lines 217-233: the three action rows of an expanded project.
ActionRows_A == <<"Iniciar", "Parar", "Reiniciar">>

\* getChildren(undefined), lines 173-207, up to its first await or its return.
getChildrenRoot_A ==
  /\ rev = "actionrow"
  /\ statusUpdateInterval = "running"
  /\ IF secret = NoKey
       THEN Prompt_F("tree", "-")
       ELSE /\ auth' = create_G(auth)
            /\ IF projects = <<>>
                 THEN /\ Cardinality(tasks) < MaxInFlight
                      /\ ~\E u \in tasks : u.op = "loadProjects" \/ u.parent = "loadProjects"
                      /\ tasks' = tasks \cup
                           {Task("loadProjects", "tree", "-", auth'["tree"], "getChildren", "-")}
                      /\ ev' = [Ev("getChildren", "tree", "-") EXCEPT
                                  !.req = {Req("/users/@me", "tree", auth'["tree"])}]
                 ELSE /\ ev' = [Ev("getChildren", "tree", "-") EXCEPT
                                  !.retTo = "tree", !.via = "direct",
                                  !.ret = RootNodes_A(projects)]
                      /\ UNCHANGED tasks
            /\ UNCHANGED <<rev, track, secret, apps, dbs, owner, optimistic, burstCalls, burstEvents, singleVars>>

\* loadProjects, lines 252-273, from the answer of GET /users/@me on.  updateStatuses
\* returns at once on an empty array (line 276), and getChildren returns the nodes.
loadProjectsDone_A(t, r) ==
  /\ rev = "actionrow"
  /\ t \in tasks /\ t.op = "loadProjects"
  /\ r \in UserResponses(t.key)
  /\ IF r.kind = "envelope" /\ r.status = "success"
       THEN LET loaded == mapProjects_A(r.response.applications, "app")
                            \o mapProjects_A(r.response.databases, "db")
            IN /\ projects' = loaded
               /\ owner' = [owner EXCEPT !["tree"] = t.key]
               /\ refreshTimeout' = refresh_A(refreshTimeout)
               /\ IF loaded = <<>>
                    THEN /\ tasks' = tasks \ {t}
                         /\ ev' = [Ev("loadProjects", "tree", "-") EXCEPT
                                     !.resp = r.response, !.scheduled = TRUE,
                                     !.retTo = "tree", !.via = "direct",
                                     !.ret = RootNodes_A(loaded)]
                    ELSE /\ tasks' = (tasks \ {t}) \cup
                              {Task("updateStatuses", "tree", "-", "-", "loadProjects", "-")}
                         /\ ev' = [Ev("loadProjects", "tree", "-") EXCEPT
                                     !.resp = r.response, !.scheduled = TRUE,
                                     !.req = {Req("/apps/status", "tree", auth["tree"]),
                                              Req("/databases/status", "tree", auth["tree"])}]
       ELSE /\ tasks' = tasks \ {t}
            /\ ev' = [Ev("loadProjects", "tree", "-") EXCEPT
                        !.ok = FALSE, !.msg = IF r.kind = "fail" THEN {"error"} ELSE {},
                        !.retTo = "tree", !.via = "direct", !.ret = RootNodes_A(projects)]
            /\ UNCHANGED <<projects, owner, refreshTimeout>>
  /\ UNCHANGED <<rev, track, secret, apps, dbs, auth, optimistic, burstCalls, burstEvents,
                 statusUpdateInterval, openedProjectId>>

\* The poll timer fires, lines 306-310 and 275-282: updateStatuses up to its await.
tick_A ==
  /\ rev = "actionrow"
  /\ statusUpdateInterval = "running"
  /\ IF auth["tree"] = NoClient \/ projects = <<>>
       THEN /\ ev' = [Ev("tick", "tree", "-") EXCEPT !.ok = FALSE]
            /\ UNCHANGED tasks
       ELSE /\ Cardinality(tasks) < MaxInFlight
            /\ Task("updateStatuses", "tree", "-", "-", "timer", "-") \notin tasks
            /\ tasks' = tasks \cup {Task("updateStatuses", "tree", "-", "-", "timer", "-")}
            /\ ev' = [Ev("tick", "tree", "-") EXCEPT
                        !.req = {Req("/apps/status", "tree", auth["tree"]),
                                 Req("/databases/status", "tree", auth["tree"])}]
  /\ UNCHANGED <<rev, track, secret, apps, dbs, auth, owner, optimistic, burstCalls, burstEvents, singleVars>>

\* updateStatuses from the answers of its two requests on, lines 284-300.
updateStatusesDone_A(t, ra, rd) ==
  /\ rev = "actionrow"
  /\ t \in tasks /\ t.op = "updateStatuses"
  /\ LET appsStatus == fetched(ra)
         dbsStatus == fetched(rd)
         hasChanges == hasChanges_A(projects, appsStatus, dbsStatus)
         p2 == applyStatuses_A(projects, appsStatus, dbsStatus)
         seen == [Ev("updateStatuses", "tree", "-") EXCEPT
                    !.was = [projects |-> projects],
                    !.resp = [apps |-> appsStatus, dbs |-> dbsStatus],
                    !.via = t.parent,
                    !.scheduled = hasChanges]
     IN /\ projects' = p2
        /\ refreshTimeout' = IF hasChanges THEN refresh_A(refreshTimeout) ELSE refreshTimeout
        /\ ev' = IF t.parent = "loadProjects"
                   THEN [seen EXCEPT !.retTo = "tree", !.ret = RootNodes_A(p2)]
                   ELSE seen
  /\ tasks' = tasks \ {t}
  /\ UNCHANGED <<rev, track, secret, apps, dbs, auth, owner, optimistic, burstCalls, burstEvents,
                 statusUpdateInterval, openedProjectId>>

\* getChildren(element) of a project node, lines 173-185 and 209-215: a project
\* other than the opened one is fetched; the opened one gets [] (line 236).
getChildrenElement_A(id) ==
  /\ rev = "actionrow"
  /\ statusUpdateInterval = "running"
  /\ id \in Ids(projects)
  /\ IF secret = NoKey
       THEN Prompt_F("tree", id)
       ELSE /\ auth' = create_G(auth)
            /\ IF id # openedProjectId
                 THEN /\ Cardinality(tasks) < MaxInFlight
                      /\ Task("status", "tree", id, "-", "getChildren", "-") \notin tasks
                      /\ openedProjectId' = id
                      /\ tasks' = tasks \cup {Task("status", "tree", id, "-", "getChildren", "-")}
                      /\ ev' = [Ev("getChildren", "tree", id) EXCEPT
                                  !.req = {Req("/status", "tree", auth'["tree"])}]
                 ELSE /\ ev' = [Ev("getChildren", "tree", id) EXCEPT
                                  !.retTo = "tree.element", !.via = "direct"]
                      /\ UNCHANGED <<tasks, openedProjectId>>
            /\ UNCHANGED <<rev, track, secret, apps, dbs, owner, optimistic, burstCalls, burstEvents,
                           refreshTimeout, statusUpdateInterval, projects>>

\* getChildren(element) from the answer of the status request on, lines 215-233:
\* the answer is ignored and the three action rows are returned.
statusDone_A(t, r) ==
  /\ rev = "actionrow"
  /\ t \in tasks /\ t.op = "status"
  /\ r \in StatusResponses
  /\ ev' = [Ev("status", "tree", t.id) EXCEPT
              !.ok = r.kind = "ok",
              !.retTo = "tree.element", !.via = "direct", !.ret = ActionRows_A]
  /\ tasks' = tasks \ {t}
  /\ UNCHANGED <<rev, track, secret, apps, dbs, auth, owner, optimistic, burstCalls, burstEvents, singleVars>>

\* The vertraCloud.refresh command, line 328.
refreshCommand_A ==
  /\ rev = "actionrow"
  /\ statusUpdateInterval = "running"
  /\ refreshTimeout' = refresh_A(refreshTimeout)
  /\ ev' = [Ev("refresh", "tree", "-") EXCEPT !.scheduled = TRUE]
  /\ UNCHANGED <<rev, track, secret, apps, dbs, auth, tasks, owner, optimistic, burstCalls,
                 burstEvents, statusUpdateInterval, projects, openedProjectId>>

\* clearProjects, lines 248-250.
clearProjects_A(list) == <<>>

\* The setApiKey command, lines 333-341: it opens the input box.
setApiKey_A ==
  /\ rev = "actionrow"
  /\ statusUpdateInterval = "running"
  /\ ~SetApiKeyBusy
  /\ Cardinality(tasks) < MaxInFlight
  /\ tasks' = tasks \cup {Task("setApiKey", "-", "-", NoKey, "-", "-")}
  /\ ev' = Ev("setApiKey", "-", "-")
  /\ UNCHANGED <<rev, track, secret, apps, dbs, auth, owner, optimistic, burstCalls, burstEvents, singleVars>>

\* setApiKey from the answer of the input box on, lines 343-352.
setApiKeyInput_A(t, apiKey) ==
  /\ rev = "actionrow"
  /\ t \in tasks /\ t.op = "setApiKey"
  /\ tasks' = tasks \ {t}
  /\ IF apiKey = NoKey
       THEN /\ ev' = [Ev("setApiKeyInput", "-", "-") EXCEPT
                        !.ok = FALSE, !.retTo = t.waiter, !.via = "prompt"]
            /\ UNCHANGED <<secret, projects, owner, refreshTimeout>>
       ELSE /\ secret' = apiKey
            /\ projects' = clearProjects_A(projects)
            /\ owner' = [owner EXCEPT !["tree"] = NoKey]
            /\ refreshTimeout' = refresh_A(refreshTimeout)
            /\ ev' = [Ev("setApiKeyInput", "-", "-") EXCEPT
                        !.msg = {"info"}, !.scheduled = TRUE,
                        !.retTo = t.waiter, !.via = "prompt"]
  /\ UNCHANGED <<rev, track, apps, dbs, auth, optimistic, burstCalls, burstEvents,
                 statusUpdateInterval, openedProjectId>>

\* The clearApiKey command, lines 358-368.
clearApiKey_A ==
  /\ rev = "actionrow"
  /\ statusUpdateInterval = "running"
  /\ IF secret = NoKey
       THEN /\ ev' = [Ev("clearApiKey", "-", "-") EXCEPT !.ok = FALSE, !.msg = {"warning"}]
            /\ UNCHANGED <<secret, projects, owner, refreshTimeout>>
       ELSE /\ secret' = NoKey
            /\ projects' = clearProjects_A(projects)
            /\ owner' = [owner EXCEPT !["tree"] = NoKey]
            /\ refreshTimeout' = refresh_A(refreshTimeout)
            /\ ev' = [Ev("clearApiKey", "-", "-") EXCEPT !.msg = {"info"}, !.scheduled = TRUE]
  /\ UNCHANGED <<rev, track, apps, dbs, auth, tasks, optimistic, burstCalls, burstEvents,
                 statusUpdateInterval, openedProjectId>>

\* A start, stop or restart row is run, lines 388-394: every action only asks
\* for the status of the project.
command_A(action, id) ==
  /\ rev = "actionrow"
  /\ statusUpdateInterval = "running"
  /\ id \in Ids(projects)
  /\ Cardinality(tasks) < MaxInFlight
  /\ Task("command", "tree", id, "-", "-", "-") \notin tasks
  /\ tasks' = tasks \cup {Task("command", "tree", id, "-", "-", "-")}
  /\ ev' = [Ev(action, "tree", id) EXCEPT
              !.msg = {"info"}, !.req = {Req("/status", "tree", auth["tree"])}]
  /\ UNCHANGED <<rev, track, secret, apps, dbs, auth, owner, optimistic, burstCalls, burstEvents, singleVars>>

\* The row's command from the answer of the status request on, lines 395-403.
commandDone_A(t, r) ==
  /\ rev = "actionrow"
  /\ t \in tasks /\ t.op = "command"
  /\ r \in StatusResponses
  /\ tasks' = tasks \ {t}
  /\ IF r.kind = "ok" /\ find(projects, t.id) # 0
       THEN /\ projects' = [projects EXCEPT ![find(projects, t.id)].running = Str(r.response.running)]
            /\ refreshTimeout' = refresh_A(refreshTimeout)
            /\ ev' = [Ev("commandDone", "tree", t.id) EXCEPT !.scheduled = TRUE]
       ELSE /\ ev' = [Ev("commandDone", "tree", t.id) EXCEPT
                        !.ok = r.kind = "ok", !.msg = IF r.kind = "ok" THEN {} ELSE {"error"}]
            /\ UNCHANGED <<projects, refreshTimeout>>
  /\ UNCHANGED <<rev, track, secret, apps, dbs, auth, owner, optimistic, burstCalls, burstEvents,
                 statusUpdateInterval, openedProjectId>>

\* stopStatusUpdateInterval, lines 312-317: a live timer is cleared and the field
\* set to null; with the field null nothing is done.
stopStatusUpdateInterval_A(handle) == IF handle # "null" THEN "null" ELSE handle

\* The extension is deactivated, lines 408-410, or stopStatusUpdateInterval is
\* called again.
dispose_A ==
  /\ rev = "actionrow"
  /\ statusUpdateInterval' = stopStatusUpdateInterval_A(statusUpdateInterval)
  /\ ev' = [Ev("dispose", "-", "-") EXCEPT !.was = statusUpdateInterval]
  /\ UNCHANGED <<rev, track, secret, apps, dbs, auth, tasks, owner, optimistic, burstCalls,
                 burstEvents, refreshTimeout, projects, openedProjectId>>

\* The constructor, lines 159-167.
Init_A ==
  /\ rev = "actionrow"
  /\ track = {}
  /\ secret \in {NoKey, "k1"}
  /\ apps = [p \in One |-> <<>>]
  /\ dbs = [p \in One |-> <<>>]
  /\ auth = [p \in One |-> NoClient]
  /\ tasks = {}
  /\ refreshTimeout = "null"
  /\ statusUpdateInterval = "running"
  /\ projects = <<>>
  /\ openedProjectId = "null"
  /\ owner = [p \in One |-> NoKey]
  /\ optimistic = {}
  /\ burstCalls = [p \in One |-> 0]
  /\ burstEvents = [p \in One |-> 0]
  /\ ev = Ev("init", "-", "-")

Next_A ==
  \/ getChildrenRoot_A
  \/ \E t \in tasks, r \in UserResponsesOf(Listings_A) : loadProjectsDone_A(t, r)
  \/ tick_A
  \/ \E t \in tasks, ra \in BulkResponses(AppsStatusLists), rd \in BulkResponses(DbsStatusLists) :
       updateStatusesDone_A(t, ra, rd)
  \/ refreshTimeoutFires
  \/ \E id \in AppIds \cup DbIds : getChildrenElement_A(id)
  \/ \E t \in tasks, r \in StatusResponses : statusDone_A(t, r)
  \/ refreshCommand_A
  \/ setApiKey_A
  \/ \E t \in tasks, k \in {"k1", NoKey} : setApiKeyInput_A(t, k)
  \/ clearApiKey_A
  \/ \E a \in Actions, id \in AppIds \cup DbIds : command_A(a, id)
  \/ \E t \in tasks, r \in StatusResponses : commandDone_A(t, r)
  \/ dispose_A

SpecActionRow == Init_A /\ [][Next_A]_vars

\* The two revisions that poll the bulk status endpoints.
SpecPoll == (Init_G \/ Init_A) /\ [][Next_G \/ Next_A]_vars

\* The steps in which an await of the polling revisions is answered.
Answers_G ==
  \/ \E t \in tasks, r \in UserResponsesOf(Listings) : loadProjectsDone_G(t, r)
  \/ \E t \in tasks, ra \in BulkResponses(AppsStatusLists), rd \in BulkResponses(DbsStatusLists) :
       updateStatusesDone_G(t, ra, rd)
  \/ \E t \in tasks, r \in StatusResponses : statusDone_G(t, r)
  \/ \E t \in tasks, k \in {"k1", NoKey} : setApiKeyInput_G(t, k)

Answers_A ==
  \/ \E t \in tasks, r \in UserResponsesOf(Listings_A) : loadProjectsDone_A(t, r)
  \/ \E t \in tasks, ra \in BulkResponses(AppsStatusLists), rd \in BulkResponses(DbsStatusLists) :
       updateStatusesDone_A(t, ra, rd)
  \/ \E t \in tasks, r \in StatusResponses : statusDone_A(t, r)
  \/ \E t \in tasks, k \in {"k1", NoKey} : setApiKeyInput_A(t, k)
  \/ \E t \in tasks, r \in StatusResponses : commandDone_A(t, r)

\* The polling revisions with their scheduling: setInterval runs its callback
\* every 60 s whatever else is pending (lines 513-515, part_000 306-310), and
\* every await is answered in the end, which is what frees the slot the bound
\* MaxInFlight makes a tick wait for.
SpecPollFair ==
  /\ SpecPoll
  /\ SF_vars(tick_G \/ tick_A)
  /\ WF_vars(Answers_G \/ Answers_A)

\* The final and the grouped revision: the two that getChildren's key check and
\* clearProjects are cited from.
SpecFinalGrouped == (Init_F \/ Init_G) /\ [][Next_F \/ Next_G]_vars

-----------------------------------------------------------------------------
(* Properties *)

\* The getChildren calls made at the root: of a view, or of the one tree.
RootWaiters == Views \cup One

\* The value a tick fetched for a resource: true exactly when the list it got
\* holds an entry of that id that runs.
FreshFlag(statusList, id) ==
  \E j \in 1..Len(statusList) : statusList[j].id = id /\ statusList[j].running

\* Some flag the tick found cached differs from the value it fetched.
C1_Differs ==
  IF rev = "grouped"
    THEN \/ \E i \in 1..Len(ev.was.apps) :
              ev.was.apps[i].running # FreshFlag(ev.resp.apps, ev.was.apps[i].id)
         \/ \E i \in 1..Len(ev.was.dbs) :
              ev.was.dbs[i].running # FreshFlag(ev.resp.dbs, ev.was.dbs[i].id)
    ELSE \E i \in 1..Len(ev.was.projects) :
           LET proj == ev.was.projects[i]
               fresh == FreshFlag(IF proj.type = "app" THEN ev.resp.apps ELSE ev.resp.dbs, proj.id)
           IN proj.running # (IF fresh THEN "true" ELSE "false")

\* C1: updateStatuses calls refresh() if and only if some cached running flag
\* differs from the value fetched in that tick; a tick without a change arms no
\* timer and emits no tree-change event.
C1_RefreshIffChanged ==
  ev.op = "updateStatuses" =>
    /\ ev.scheduled <=> C1_Differs
    /\ ev.fired = {}

C1_Witness ==
  /\ ev.op = "updateStatuses"
  /\ ev.via = "timer"
  /\ ~ev.scheduled
  /\ IF rev = "grouped" THEN ev.was.apps # <<>> ELSE ev.was.projects # <<>>

\* C2: the refresh() calls of one 100 ms window emit exactly one tree-change event.
C2_OneEventPerWindow ==
  ev.op = "window" =>
    \A p \in DOMAIN ev.calls : ev.calls[p] >= 1 => ev.events[p] = 1

Target(op) == IF op \in {"stop", "stopDone"} THEN "down" ELSE "up"

\* C3 as stated: once start or stop has been invoked on an app of the mirror, and
\* before its POST is answered, the cached status is the target value.
C3_SetBeforeResponse ==
  (ev.op \in {"stop", "start"} /\ ev.was # "-") =>
    StatusOf(apps["app"], ev.id) = Target(ev.op)

\* C3 amended: invoking start or stop leaves the cached status as it was; the
\* status becomes the target value in the step that receives the 2xx answer.
C3_SetOnAcceptance ==
  /\ ev.op \in {"stop", "start"} => StatusOf(apps["app"], ev.id) = ev.was
  /\ (ev.op \in {"stopDone", "startDone"} /\ ev.ok /\ ev.was # "-") =>
       StatusOf(apps["app"], ev.id) = Target(ev.op)

C3_Witness ==
  /\ ev.op = "startDone"
  /\ ev.ok
  /\ ev.was = "down"
  /\ StatusOf(apps["app"], ev.id) = "up"

\* C4: a status fetch asked for and answered while the cached status of the app
\* is one a command wrote leaves the cache with the server's value.
C4_FetchOverwrites ==
  (ev.op = "status" /\ ev.ok /\ ev.was = "optimistic" /\ ev.id \in optimistic) =>
    StatusOf(apps["app"], ev.id) = (IF ev.snap.running THEN "up" ELSE "down")

\* The nodes a root getChildren of the apps view builds from the mirror.
AppNodes ==
  IF rev = "final" THEN RootNodes_F("app", apps["app"], dbs["app"])
                   ELSE RootNodes_T("app", apps["app"], dbs["app"])

\* C5: a stop of an app cached as up whose POST is accepted leaves the entry
\* down, emits the tree-change event of the apps view, and the node built for
\* the app is red; no poll timer exists.
C5_StopShowsRed ==
  (ev.op = "stopDone" /\ ev.ok /\ ev.was = "up") =>
    /\ StatusOf(apps["app"], ev.id) = "down"
    /\ "app" \in ev.fired
    /\ \A i \in 1..Len(AppNodes) : AppNodes[i].id = ev.id => AppNodes[i].icon = "charts.red"
    /\ statusUpdateInterval = "null"

C5_Witness ==
  /\ ev.op = "stopDone"
  /\ ev.ok
  /\ ev.was = "up"
  /\ \E i \in 1..Len(AppNodes) : AppNodes[i].id = ev.id /\ AppNodes[i].icon = "charts.red"

\* The steps that have run clearProjects.
Cleared ==
  \/ ev.op = "clearApiKey" /\ ev.ok
  \/ rev = "grouped" /\ ev.op = "setApiKeyInput" /\ ev.ok

C6_Empty == \A p \in DOMAIN apps : apps[p] = <<>> /\ dbs[p] = <<>>

\* C6 as stated: clearProjects leaves both collections empty, and a root
\* getChildren made without a key returns before any request is issued.
C6_NoRequestBeforeReturn ==
  /\ Cleared => C6_Empty
  /\ (ev.via = "prompt" /\ ev.retTo \in RootWaiters) =>
       ev.op = "setApiKeyInput" /\ ev.req = {}

\* C6 amended: clearProjects leaves both collections empty; a root getChildren
\* made without a key issues no request itself and returns [] when the setApiKey
\* command ends, which in the final revision is after the reloads that command
\* awaits when a key was typed.
C6_NoRequestOfItsOwn ==
  /\ Cleared => C6_Empty
  /\ (ev.op = "getChildren" /\ ev.id = "-" /\ secret = NoKey) => ev.req = {} /\ ev.retTo = "-"
  /\ (ev.via = "prompt" /\ ev.retTo \in RootWaiters) =>
       /\ ev.ret = <<>>
       /\ \/ ev.op = "setApiKeyInput" /\ ev.req = {}
          \/ rev = "final" /\ ev.op = "loadProjects"

C6_Witness ==
  /\ ev.via = "prompt"
  /\ ev.retTo \in RootWaiters
  /\ ev.op = "loadProjects"

\* The resource nodes of a root answer: the grouped revision returns them under
\* its two groups.
Shown == IF rev = "grouped" THEN ev.ret.apps \o ev.ret.dbs ELSE ev.ret

\* C7: the resources a root getChildren presents from the cache were fetched with
\* the key that is stored now.
C7_NoStaleAccount ==
  (ev.op = "getChildren" /\ ev.retTo \in RootWaiters /\ ev.via = "direct" /\ Shown # <<>>) =>
    owner[ev.p] = secret

\* C8: a 404 on the status of an app gives the all-zero snapshot that is down,
\* its rows are shown and no error is reported.
C8_SyntheticOffline ==
  (ev.op = "status" /\ ev.p = "app" /\ ev.code = 404) =>
    /\ ev.snap = Snapshot(FALSE, 0, 0, 0, <<0, 0>>, <<0, 0>>, "down", 0)
    /\ ev.ret # <<>>
    /\ ev.msg = {}
    /\ ev.via = "direct"

\* C9: without a stored key a root getChildren runs the setApiKey command and
\* returns the empty list, whatever the collections hold.
C9_PromptAndEmpty ==
  /\ (ev.op = "getChildren" /\ ev.id = "-" /\ secret = NoKey) =>
       ev.prompt /\ ev.req = {} /\ ev.retTo = "-"
  /\ (ev.via = "prompt" /\ ev.retTo \in RootWaiters) => ev.ret = <<>>

C9_Witness ==
  /\ ev.via = "prompt"
  /\ ev.retTo \in RootWaiters
  /\ apps[ev.retTo] # <<>>

\* The collections of the provider a root answer comes from.
LoadedApps == apps[ev.retTo]

LoadedDbs == dbs[ev.retTo]

Colour(status) == IF status = "up" THEN "charts.green" ELSE "charts.red"

\* The nodes the answer should hold: one per resource of the provider's kind
\* (of both kinds in the grouped revision), coloured by the status field.
Expected ==
  LET list == IF rev = "grouped" THEN LoadedApps \o LoadedDbs
              ELSE IF ev.retTo = "app" THEN LoadedApps ELSE LoadedDbs
  IN [i \in 1..Len(list) |-> [id |-> list[i].id, icon |-> Colour(list[i].status)]]

\* C10: a root answer built from collections loaded from 2 applications and 1
\* database holds one node per resource, each coloured by its status field.
C10_NodesPerStatus ==
  ( /\ ev.retTo \in RootWaiters
    /\ ev.via \in {"direct", "loadProjects"}
    /\ Len(LoadedApps) = 2
    /\ Len(LoadedDbs) = 1 ) =>
    Shown = Expected

\* No identifier occurs twice in the list.
Unique(list) == \A i, j \in 1..Len(list) : list[i].id = list[j].id => i = j

\* C11: in every reachable state, whatever reloads, clears, polls and commands
\* have run, each identifier of a provider's application collection occurs
\* there once, and each identifier of its database collection occurs there once.
C11_UniqueIds == \A p \in DOMAIN apps : Unique(apps[p]) /\ Unique(dbs[p])

\* The reload setApiKey starts ends on a view, after the collections were loaded.
C11_Witness ==
  /\ rev = "final"
  /\ ev.op = "loadProjects"
  /\ ev.ok
  /\ ev.fired = Views
  /\ Len(apps[ev.p]) = 2
  /\ Len(dbs[ev.p]) = 1

\* The operations that act for the user: a fetch of the root or of a node, a
\* start, stop or restart, and viewLogs.
Operations == {"getChildren", "viewLogs"} \cup Actions

\* C12: while no key is stored, a root fetch, a node expansion, a start, stop
\* or restart command and viewLogs issue no HTTP request and show no error.
C12_NoRequestWithoutKey ==
  (secret = NoKey /\ ev.op \in Operations) => ev.req = {} /\ ev.msg = {}

\* C13: when GET /users/@me is answered with an envelope that is not "success",
\* the collections of the provider are empty afterwards and no error is shown.
C13_NonSuccessIsNoData ==
  (ev.op = "loadProjects" /\ ev.code = 200 /\ ~ev.ok) =>
    /\ apps[ev.p] = <<>>
    /\ dbs[ev.p] = <<>>
    /\ "error" \notin ev.msg

\* The record of a step in which a request of the final revision failed: a POST
\* of a command, GET /users/@me, or a status request other than the 404 of an app.
Failed(e) ==
  \/ e.op \in {"stopDone", "startDone", "restartDone"} /\ ~e.ok
  \/ e.op = "loadProjects" /\ ~e.ok /\ e.code = 0
  \/ e.op = "status" /\ ~e.ok /\ ~(e.p = "app" /\ e.code = 404)

\* C14: an operation whose request fails writes nothing to the mirror, neither
\* when it issues the request nor when the failure arrives; the failure shows
\* an error message and issues no further request.
C14_FailureLeavesMirror ==
  [][ /\ ev'.op \in Actions => apps' = apps /\ dbs' = dbs
      /\ Failed(ev') => /\ apps' = apps
                        /\ dbs' = dbs
                        /\ "error" \in ev'.msg
                        /\ ev'.req = {} ]_vars

C14_Witness ==
  /\ ev.op = "stopDone"
  /\ ~ev.ok
  /\ StatusOf(apps["app"], ev.id) = "up"

\* A tick of the timer one of whose requests failed.
FailedPoll ==
  /\ ev.op = "updateStatuses"
  /\ ev.via = "timer"
  /\ ev.resp.apps = <<>> \/ ev.resp.dbs = <<>>

\* C15: only stopStatusUpdateInterval changes the poll timer, so a tick whose
\* requests failed leaves it armed; and while it is armed, such a tick is
\* followed by a later tick.
C15_PollSurvivesFailure ==
  /\ [][statusUpdateInterval' # statusUpdateInterval => ev'.op = "dispose"]_vars
  /\ (FailedPoll /\ statusUpdateInterval = "running") ~>
       (ev.op = "tick" \/ statusUpdateInterval # "running")

C15_Witness ==
  /\ FailedPoll
  /\ ev.resp.apps = <<>>
  /\ ev.resp.dbs = <<>>
  /\ statusUpdateInterval = "running"

\* C16: stopStatusUpdateInterval leaves the timer stopped and reports nothing; a
\* call that finds it stopped changes nothing at all; and once it is stopped
\* it stays stopped and no tick starts.
C16_StopIdempotent ==
  [][ /\ ev'.op = "dispose" =>
           /\ statusUpdateInterval' # "running"
           /\ ev'.ok /\ ev'.msg = {}
           /\ statusUpdateInterval # "running" =>
                UNCHANGED <<secret, apps, dbs, auth, tasks, refreshTimeout,
                            statusUpdateInterval, projects, openedProjectId>>
      /\ (rev \in {"grouped", "actionrow"} /\ statusUpdateInterval # "running") =>
           /\ statusUpdateInterval' = statusUpdateInterval
           /\ ev'.op # "tick" ]_vars

\* A second call of stopStatusUpdateInterval.
C16_Witness ==
  /\ ev.op = "dispose"
  /\ ev.was # "running"
  /\ statusUpdateInterval # "running"

\* C17: the answer to a poll that was in flight when stopStatusUpdateInterval
\* was called changes no cached running flag and asks for no redraw.
C17_StoppedPollLeavesMirror ==
  (ev.op = "updateStatuses" /\ ev.via = "timer" /\ statusUpdateInterval # "running") =>
    /\ ~ev.scheduled
    /\ IF rev = "grouped"
         THEN apps["tree"] = ev.was.apps /\ dbs["tree"] = ev.was.dbs
         ELSE projects = ev.was.projects

\* The provider of a polling revision holds no resource.
MirrorEmpty ==
  IF rev = "grouped" THEN apps["tree"] = <<>> /\ dbs["tree"] = <<>> ELSE projects = <<>>

\* C18: a tick of the poll timer that finds the mirror empty issues no request
\* and asks for no redraw.
C18_EmptyTickNoOp ==
  (ev.op = "tick" /\ MirrorEmpty) => ev.req = {} /\ ~ev.scheduled /\ ev.fired = {}

\* C19: a reload that has just run leaves the mirror as a second run with the
\* same answers would: in the final revision the collections the listing is
\* pushed into; in the grouped revision the entries mapped from the listing and,
\* once the bulk statuses it awaits are in, the flags written from them.
C19_ReloadIdempotent ==
  /\ (rev = "final" /\ ev.op = "loadProjects" /\ ev.ok) =>
       /\ replaceAll_F(apps[ev.p], ev.resp.applications) = apps[ev.p]
       /\ replaceAll_F(dbs[ev.p], ev.resp.databases) = dbs[ev.p]
  /\ (rev = "grouped" /\ ev.op = "loadProjects" /\ ev.ok) =>
       /\ mapProjects_G(ev.resp.applications) = apps["tree"]
       /\ mapProjects_G(ev.resp.databases) = dbs["tree"]
  /\ (rev = "grouped" /\ ev.op = "updateStatuses" /\ ev.via = "loadProjects") =>
       /\ applyStatuses_G(mapProjects_G(apps["tree"]), ev.resp.apps) = apps["tree"]
       /\ applyStatuses_G(mapProjects_G(dbs["tree"]), ev.resp.dbs) = dbs["tree"]

\* The first of the two reloads of setApiKey has ended on a loaded view.
C19_Witness ==
  /\ rev = "final"
  /\ ev.op = "loadProjects"
  /\ ev.ok
  /\ ev.fired = {}
  /\ ev.retTo = "-"
  /\ apps[ev.p] = ev.resp.applications
  /\ apps[ev.p] # <<>>

\* C20: with a key stored, expanding a resource node issues one status request,
\* of the node's kind; a successful answer is presented as four rows: running
\* indicator, RAM usage and limit, CPU and uptime in whole minutes.
C20_OneRequestFourRows ==
  /\ (ev.op = "getChildren" /\ ev.id # "-" /\ ~ev.prompt /\ ev.retTo = "-") =>
       /\ Cardinality(ev.req) = 1
       /\ \A q \in ev.req : q.path = "/status" /\ q.p = ev.p
  /\ (ev.op = "status" /\ ev.ok) =>
       /\ Len(ev.ret) = 4
       /\ [i \in 1..4 |-> ev.ret[i].description] = <<"Status", "RAM", "CPU", "Uptime">>
       /\ ev.ret[1].label = (IF ev.snap.running THEN "Ligado" ELSE "Desligado")
       /\ ev.ret[2].label[1] = ev.snap.ram
       /\ ev.ret[3].label = ev.snap.cpu
       /\ ev.ret[4].label = ev.snap.uptime \div 60

\* C21: every getChildren call that ends resolves to a list; none is rejected.
C21_NeverRejects ==
  ev.retTo # "-" => ev.via # "rejected"

\* C22: a start, stop or restart command issues the action call of its name,
\* and the step that receives its 2xx reports success and issues no request.
C22_FireAndConfirm ==
  /\ ev.op \in Actions => ev.req # {} /\ \A q \in ev.req : q.path = ev.op
  /\ (ev.op \in {"stopDone", "startDone", "restartDone"} /\ ev.ok) =>
       "info" \in ev.msg /\ ev.req = {}

\* The resource nodes a root getChildren of a polling revision builds from the
\* mirror as it is.
NodesNow ==
  IF rev = "grouped" THEN Children_G(apps["tree"]) \o Children_G(dbs["tree"])
                     ELSE RootNodes_A(projects)

\* C23: right after the listing has been loaded, when no resource has been
\* polled or fetched yet, no resource is drawn with the red icon of one that is
\* known to be down.
C23_UnknownNotRed ==
  (ev.op = "loadProjects" /\ ev.ok) =>
    \A i \in 1..Len(NodesNow) : NodesNow[i].icon # "charts.red"

\* The running flag the mirror holds for a resource, which its node icon shows.
FlagShown(p, id) ==
  IF rev = "grouped"
    THEN LET list == IF p = "app" THEN apps["tree"] ELSE dbs["tree"]
         IN list[find(list, id)].running
    ELSE StatusOf(IF p = "app" THEN apps[p] ELSE dbs[p], id) = "up"

Cached(p, id) ==
  IF rev = "grouped"
    THEN id \in Ids(IF p = "app" THEN apps["tree"] ELSE dbs["tree"])
    ELSE id \in Ids(IF p = "app" THEN apps[p] ELSE dbs[p])

\* C24: when the on-demand status fetch of an expanded resource returns
\* running = r, the flag the mirror holds for that resource is r.
C24_FetchedIsShown ==
  (ev.op = "status" /\ ev.ok /\ Cached(ev.p, ev.id)) =>
    FlagShown(ev.p, ev.id) = ev.snap.running

\* The entries of one collection whose flag a step changed, in the mirror as it
\* was before the step and as it is after it.
Kept(type) ==
  IF rev = "grouped"
    THEN IF type = "app" THEN ev.was.apps = apps["tree"] ELSE ev.was.dbs = dbs["tree"]
    ELSE \A i \in 1..Len(projects) :
           projects[i].type = type => projects[i].running = ev.was.projects[i].running

\* C25: a poll tick whose bulk request for a collection failed leaves every
\* flag of that collection as it was, and a tick both of whose requests failed
\* asks for no redraw.
C25_FailedFetchCommitsNothing ==
  FailedPoll =>
    /\ ev.resp.apps = <<>> => Kept("app")
    /\ ev.resp.dbs = <<>> => Kept("db")
    /\ (ev.resp.apps = <<>> /\ ev.resp.dbs = <<>>) => ~ev.scheduled

\* C26: a command whose call is accepted updates the mirror, then requests the
\* redraw, and only then shows the success message; one whose call fails shows
\* the failure message and neither updates the mirror nor requests a redraw.
C26_NotifyLast ==
  ev.op \in {"stopDone", "startDone", "restartDone"} =>
    IF ev.ok
      THEN ev.order \in {<<"status", "refresh", "showInformationMessage">>,
                         <<"refresh", "showInformationMessage">>}
      ELSE ev.order = <<"showErrorMessage">> /\ ev.fired = {}

\* The mirrors of the revision: one per view, or the single tree's.
Providers == IF rev \in {"final", "twoview"} THEN Views ELSE One

\* The two collections hold the entries of listing l, in its order; the status
\* of an application is left out where commands write it.
FromListing(a, d, l) ==
  /\ Len(a) = Len(l.applications)
  /\ Len(d) = Len(l.databases)
  /\ \A i \in 1..Len(a) :
       /\ a[i].id = l.applications[i].id
       /\ a[i].ram = l.applications[i].ram
       /\ rev = "grouped" => a[i].status = l.applications[i].status
  /\ \A i \in 1..Len(d) :
       /\ d[i].id = l.databases[i].id
       /\ d[i].ram = l.databases[i].ram
       /\ d[i].status = l.databases[i].status

\* C27: in every state the applications and the databases of a mirror are the
\* entries of one listing (or both are empty), none twice, and right after a
\* successful reload they are the entries of the listing it received.
C27_NoTornState ==
  /\ \A p \in Providers :
       /\ \E l \in AllListings : FromListing(apps[p], dbs[p], l)
       /\ Unique(apps[p]) /\ Unique(dbs[p])
  /\ (ev.op = "loadProjects" /\ ev.ok) =>
       FromListing(apps[ev.p], dbs[ev.p], ev.resp)

\* A reload has replaced the collections of a mirror while another reload, or a
\* poll the timer started, is still in flight.
C27_Witness ==
  /\ ev.op = "loadProjects" /\ ev.ok
  /\ apps[ev.p] # <<>> /\ dbs[ev.p] # <<>>
  /\ \E u \in tasks : u.op = "loadProjects" \/ (u.op = "updateStatuses" /\ u.parent = "timer")

-----------------------------------------------------------------------------
(* The polling revisions with the view shown and nobody at the keyboard: the
   host calls getChildren(undefined) when the view appears and once for every
   tree-change event (onDidChangeTreeData); requests are answered, here within
   the 100 ms of the timer of refresh(), and the timer expires.  No command
   runs and the poll timer does not tick. *)

Init_R == (Init_G \/ Init_A) /\ secret = "k1"

\* The host owes the provider a root getChildren.
Redraws == ev.op \in {"init", "refreshTimeout"}

Next_R ==
  \/ Redraws /\ getChildrenRoot_G
  \/ Redraws /\ getChildrenRoot_A
  \/ \E t \in tasks, r \in UserResponsesOf(AllListings) : loadProjectsDone_G(t, r)
  \/ \E t \in tasks, r \in UserResponsesOf(AllListings) : loadProjectsDone_A(t, r)
  \/ \E t \in tasks, ra \in BulkResponses(AppsStatusLists), rd \in BulkResponses(DbsStatusLists) :
       updateStatusesDone_G(t, ra, rd)
  \/ \E t \in tasks, ra \in BulkResponses(AppsStatusLists), rd \in BulkResponses(DbsStatusLists) :
       updateStatusesDone_A(t, ra, rd)
  \/ tasks = {} /\ refreshTimeoutFires

SpecRedraw == Init_R /\ [][Next_R]_vars /\ WF_vars(Next_R)

\* Nothing is in flight, no refresh timer is pending, no redraw is owed.
Quiet == tasks = {} /\ refreshTimeout # "pending" /\ ~Redraws

\* C28: after the root getChildren of a view that has a key, with no command
\* and no poll tick, the provider comes to rest: from some point on no request
\* is in flight and no refresh is pending.
C28_Quiesces == <>[]Quiet

-----------------------------------------------------------------------------
\* The polling revisions with a timer service that lets an armed timer expire.
SpecDebounce == SpecPoll /\ WF_vars(refreshTimeoutFires)

\* C29: at most one refresh timer is live; every refresh() call leaves one
\* pending; a tree-change event is emitted only by the expiry of the pending
\* timer, which it uses up; and a pending timer leads to an event.
C29_DebounceOnce ==
  /\ [](refreshTimeout \in {"null", "pending", "fired"})
  /\ [][ev'.scheduled => refreshTimeout' = "pending"]_vars
  /\ [][ev'.fired # {} =>
         ev'.op = "refreshTimeout" /\ refreshTimeout = "pending" /\ refreshTimeout' = "fired"]_vars
  /\ (refreshTimeout = "pending") ~> (ev.op = "refreshTimeout" /\ ev.fired = One)

\* The timer armed by the refresh() calls of a reload and of the poll it awaits
\* has expired on a loaded mirror.
C29_Witness ==
  /\ ev.op = "refreshTimeout"
  /\ refreshTimeout = "fired"
  /\ tasks = {}
  /\ apps["tree"] # <<>> \/ projects # <<>>

\* C30: while a key is stored, every request a step issues carries that key as
\* its bearer token.
C30_RequestsCarryStoredKey ==
  secret \in Keys => \A q \in ev.req : q.bearer = secret

\* C31: in the final revision, while no key is stored (at the start, and from
\* the end of clearApiKey until setApiKey stores one), the collections of both
\* providers are empty.
C31_ClearedStaysEmpty ==
  (rev = "final" /\ secret = NoKey) =>
    \A p \in Views : apps[p] = <<>> /\ dbs[p] = <<>>

\* C32: in the action-row revision every getChildren of a project node that
\* finds a key answers with the three action rows.
C32_ActionRowsEveryCall ==
  (rev = "actionrow" /\ ev.retTo = "tree.element" /\ ev.via = "direct") =>
    ev.ret = ActionRows_A

\* C33: when a reload that setApiKey started commits its listing, the command
\* requests its redraw of both views in that step, or still awaits its other
\* reload and requests the redraw when that one ends.
C33_RedrawAfterCommit ==
  (ev.op = "loadProjects" /\ ev.ok /\ ev.via \notin {"direct", "rejected"}) =>
    \/ ev.fired = Views
    \/ \E u \in tasks : u.op = "loadProjects" /\ u.parent = "setApiKey"

\* C34: neither the step that issues a restart nor the step that receives its
\* answer changes a collection; the accepted restart requests the redraw of the
\* apps view and nothing else, the failed one requests no redraw.
C34_RestartFrame ==
  [][ /\ ev'.op = "restart" => apps' = apps /\ dbs' = dbs /\ ev'.fired = {}
      /\ ev'.op = "restartDone" =>
           /\ apps' = apps
           /\ dbs' = dbs
           /\ ev'.req = {}
           /\ ev'.fired = IF ev'.ok THEN {"app"} ELSE {} ]_vars

\* A restart was accepted for an app the mirror holds as down.
C34_Witness ==
  /\ ev.op = "restartDone"
  /\ ev.ok
  /\ StatusOf(apps["app"], ev.id) = "down"
====
